---- MODULE Spec2Model ----
(***************************************************************************)
(* Caching and rate-limiting layer of website-analytics-api:               *)
(*   config/redis.js           (cacheGet, cacheSet, cacheDel, cacheIncr)   *)
(*   utils/cacheOptimizer.js   (enhancedCacheGet/Set, invalidateCacheByTag)*)
(*   middleware/rateLimiter.js (OptimizedRateLimiter)                      *)
(*   middleware/apiKey.js      (verifyApiKey, per-key hourly limit)        *)
(*                                                                         *)
(* Time is Date.now() in milliseconds, scaled: MsPerSec stands for 1000.   *)
(* Every await of the source is an action boundary; the synchronous code   *)
(* between two awaits is one action.                                       *)
(***************************************************************************)
EXTENDS Integers, Sequences, FiniteSets, TLC

VARIABLES
  now,          \* Date.now()
  kvUp,         \* the Redis connection answers commands
  outageSeen,   \* history: the connection has been down at some point
  db,           \* the api_keys row of the one API key, and whether revoke returned
  counters,     \* Redis: rate-limit counter keys -> [count, exp]
  rl,           \* the request inside a rate-limit check (cacheIncr's position)
  rlLast,       \* outcome of the last completed rate-limit check
  limiter,      \* the limiter the requests of this behaviour go through
  windowMs,     \* OptimizedRateLimiter.windowMs
  rateLimitPerHour, \* apiKeyRecord.rate_limit_per_hour
  winExact,     \* history: the window of the contract, of length windowMs
  winTtl,       \* history: the window of the contract, of length ceil(windowMs/1000) s
  ctrBorn,      \* history: when the INCR that created the counter ran
  crashSeen,    \* history: the process died inside a rate-limit check
  allowedAt,    \* history: per arrival time, the requests the limiter let through
  store,        \* Redis: cache keys -> [present, val, exp]
  tagIndex,     \* Redis: cache:tag:<tag> -> [present, keys, exp]
  memoryCache,  \* the L1 Map of the process: key -> [present, value, expires]
  cacheStats,   \* hits, misses, memoryHits, redisHits, sets, deletes
  statsOn,      \* the behaviour observes cacheStats (handlers only write it)
  getCalls,     \* history: enhancedCacheGet calls ended since the last reset
  tasks,        \* the calls in flight in the process, one per request
  written,      \* history: per key, the last set whose KV write landed
  collect,      \* POST /api/analytics/collect: the request in the pipeline, the
                \* counters of its limiters, the events and invalidations made
  perUser       \* perUserRateLimit: userRequests, and the history of its decisions

envVars == <<now, kvUp, outageSeen, db>>
rlVars == <<counters, rl, rlLast, limiter, windowMs, rateLimitPerHour,
            winExact, winTtl, ctrBorn, crashSeen, allowedAt>>
kvCacheVars == <<store, tagIndex>>
statVars == <<statsOn, getCalls>>
cacheVars == <<store, tagIndex, memoryCache, cacheStats, statVars, tasks, written>>
httpVars == <<collect, perUser>>
vars == <<envVars, rlVars, cacheVars, httpVars>>

----------------------------------------------------------------------------
(* Bounds and scaled constants *)

\* milliseconds per second (1000 in the source), scaled
MsPerSec == 2
\* last instant the clock reaches
MaxTime == 6
\* OptimizedRateLimiter.maxRequests of the limiter under check
MaxRequests == 2
\* cap on a rate-limit counter
MaxCount == 4
\* the per-API-key window of verifyApiKey in seconds (3600 in the source), scaled
ApiKeyWindowSecs == 2
\* the default of rate_limit_per_hour (10000 in the source), scaled
DefaultPerHour == 3

NoTTL == 0 - 1

Max(a, b) == IF a > b THEN a ELSE b
Min(a, b) == IF a < b THEN a ELSE b

\* Math.ceil(a / b) for a >= 0, b > 0
Ceil(a, b) == (a + b - 1) \div b

----------------------------------------------------------------------------
(* Rate limiting *)

OptKey == "rl:optimized"
ApiKeyKey == "api_key_rate_limit"
CtrKeys == {OptKey, ApiKeyKey}

\* windows the optimized limiter is built with: 1 s and 1 s + 1 ms (scaled)
Windows == {MsPerSec, MsPerSec + 1}
\* rate_limit_per_hour values of an API key record; 0 stands for 0/NULL
PerHourValues == {0, 2}

NoCounter == [count |-> 0, exp |-> NoTTL]
RlIdle == [pc |-> "idle", who |-> "none", key |-> "none", ttl |-> 0, t0 |-> 0]
NoCheck == [who |-> "none", count |-> 0, allowed |-> TRUE, headers |-> FALSE,
            remaining |-> 0, resetAt |-> 0, failed |-> FALSE, at |-> 0]
NoWindow == [first |-> 0, calls |-> 0]

\* Redis drops the keys whose expiry has been reached at instant t
ExpireCounters(ctr, t) ==
  [k \in CtrKeys |->
     IF ctr[k].exp # NoTTL /\ ctr[k].exp <= t THEN NoCounter ELSE ctr[k]]

\* Math.floor in place of Math.ceil: a TTL shorter than windowMs
OptTtlSecsFloor == windowMs \div MsPerSec

\* the TTL in seconds the optimized limiter hands to cacheIncr
OptTtlSecs == Ceil(windowMs, MsPerSec)

\* the limit verifyApiKey compares with: rate_limit_per_hour || 10000
ApiKeyLimit == IF rateLimitPerHour = 0 THEN DefaultPerHour ELSE rateLimitPerHour

\* a limiter that denies the request that reaches the limit
OptDecisionOffByOne(count, t0) ==
  IF count = 0
  THEN [who |-> "opt", count |-> 0, allowed |-> TRUE, headers |-> FALSE,
        remaining |-> 0, resetAt |-> 0, failed |-> TRUE, at |-> t0]
  ELSE [who |-> "opt", count |-> count, allowed |-> ~(count >= MaxRequests),
        headers |-> TRUE, remaining |-> Max(0, MaxRequests - count),
        resetAt |-> t0 + windowMs, failed |-> FALSE, at |-> t0]

\* OptimizedRateLimiter.middleware after cacheIncr returned count (0 is null)
OptDecision(count, t0) ==
  IF count = 0
  THEN [who |-> "opt", count |-> 0, allowed |-> TRUE, headers |-> FALSE,
        remaining |-> 0, resetAt |-> 0, failed |-> TRUE, at |-> t0]
  ELSE [who |-> "opt", count |-> count, allowed |-> ~(count > MaxRequests),
        headers |-> TRUE, remaining |-> Max(0, MaxRequests - count),
        resetAt |-> t0 + windowMs, failed |-> FALSE, at |-> t0]

\* verifyApiKey after cacheIncr returned requestCount (0 is null)
ApiKeyDecision(count, t0) ==
  [who |-> "apikey", count |-> count,
   allowed |-> ~(count # 0 /\ count > ApiKeyLimit),
   headers |-> FALSE, remaining |-> 0, resetAt |-> 0, failed |-> (count = 0),
   at |-> t0]

Decision(who, count, t0) ==
  IF who = "opt" THEN OptDecision(count, t0) ELSE ApiKeyDecision(count, t0)

\* history: nothing let through yet; on: the behaviour keeps the history
NoLog(on) == [on |-> on, n |-> [t \in 0..MaxTime |-> 0]]

\* history: the request that arrived at d.at got the outcome d
Logged(log, d) ==
  IF log.on /\ d.allowed THEN [log EXCEPT !.n[d.at] = @ + 1] ELSE log

\* the contract's state machine: NoCounter -> 1 -> n+1, back to NoCounter
\* once len has elapsed since the first call of the window
WindowStep(win, len) ==
  IF win.calls = 0 \/ now >= win.first + len
  THEN [first |-> now, calls |-> 1]
  ELSE [win EXCEPT !.calls = @ + 1]

\* `if (value === 1 && ttl)` with every increment taken for the first
NeedsExpireAlways(value, ttl) == ttl # 0

\* `if (value === 1 && ttl)`: the increment that created the key sets the TTL
NeedsExpire(value, ttl) == value = 1 /\ ttl # 0

\* cacheIncr up to the answer of INCR, called by limiter who
CacheIncrIncr(who, key, ttl, len) ==
  /\ rl.pc = "idle"
  /\ counters[key].count < MaxCount
  /\ limiter = who
  /\ WindowStep(winExact, len).calls <= MaxCount
  /\ WindowStep(winTtl, ttl * MsPerSec).calls <= MaxCount
  /\ winExact' = WindowStep(winExact, len)
  /\ winTtl' = WindowStep(winTtl, ttl * MsPerSec)
  /\ IF ~kvUp
     THEN /\ rlLast' = Decision(who, 0, now)
          /\ allowedAt' = Logged(allowedAt, Decision(who, 0, now))
          /\ UNCHANGED <<counters, rl, ctrBorn>>
     ELSE LET value == counters[key].count + 1 IN
          /\ counters' = [counters EXCEPT ![key].count = value]
          /\ ctrBorn' = IF value = 1 THEN now ELSE ctrBorn
          /\ IF NeedsExpire(value, ttl)
             THEN /\ rl' = [pc |-> "expire", who |-> who, key |-> key,
                            ttl |-> ttl, t0 |-> now]
                  /\ UNCHANGED <<rlLast, allowedAt>>
             ELSE /\ rlLast' = Decision(who, value, now)
                  /\ allowedAt' = Logged(allowedAt, Decision(who, value, now))
                  /\ UNCHANGED rl
  /\ UNCHANGED <<httpVars, envVars, limiter, windowMs, rateLimitPerHour, crashSeen, cacheVars>>

\* OptimizedRateLimiter.middleware: a request of the one identity
OptimizedRateLimiterCheck ==
  CacheIncrIncr("opt", OptKey, OptTtlSecs, windowMs)

\* verifyApiKey: the per-key hourly limit of a valid key
VerifyApiKeyCheck ==
  CacheIncrIncr("apikey", ApiKeyKey, ApiKeyWindowSecs, ApiKeyWindowSecs * MsPerSec)

\* cacheIncr from the answer of INCR = 1 to the answer of EXPIRE
CacheIncrExpire ==
  /\ rl.pc = "expire"
  /\ IF kvUp
     THEN /\ counters' = [counters EXCEPT ![rl.key].exp = now + rl.ttl * MsPerSec]
          /\ rlLast' = Decision(rl.who, 1, rl.t0)
          /\ allowedAt' = Logged(allowedAt, Decision(rl.who, 1, rl.t0))
     ELSE /\ rlLast' = Decision(rl.who, 0, rl.t0)
          /\ allowedAt' = Logged(allowedAt, Decision(rl.who, 0, rl.t0))
          /\ UNCHANGED counters
  /\ rl' = RlIdle
  /\ UNCHANGED <<httpVars, envVars, limiter, windowMs, rateLimitPerHour,
                 winExact, winTtl, ctrBorn, crashSeen, cacheVars>>

\* the process dies inside cacheIncr, between INCR and EXPIRE, and restarts
CrashInIncr ==
  /\ rl.pc = "expire"
  /\ rl' = RlIdle
  /\ rlLast' = NoCheck
  /\ crashSeen' = TRUE
  /\ UNCHANGED <<httpVars, envVars, counters, limiter, windowMs, rateLimitPerHour,
                 winExact, winTtl, ctrBorn, allowedAt, cacheVars>>

----------------------------------------------------------------------------
(* POST /api/analytics/collect: the middleware server.js mounts on every   *)
(* request, then verifyApiKey, requirePermission('write'),                 *)
(* eventCollectionLimiter, the validators and the handler                  *)

\* X-API-Key of a request: none, one no row has, the key of an app, a key
\* whose permissions lack write
ApiKeyHeaders == {"missing", "unknown", "valid", "readonly"}

\* the body: one the validators accept, one with no event name, one with a
\* string preventSQLInjection matches (a SQL keyword, `;`, `--`)
Bodies == {"clean", "noevent", "sql"}

\* requests of one user the behaviour lets through perUserRateLimit
MaxPasses == 5
\* requests the behaviour sends
MaxArrivals == 4
\* max of apiLimiter, rate_limit_per_hour of the key, max of eventCollectionLimiter
ApiMax == 3
KeyPerHour == 2
EventMax == 1

NoCollect ==
  [pc |-> "idle", key |-> "none", body |-> "none", status |-> 0, did |-> {},
   arrived |-> 0, apiCount |-> 0, keyCount |-> 0, eventCount |-> 0,
   created |-> 0, invalidated |-> 0]

\* ApiKey.validateAndGet(apiKey) is null for a key no row has, whatever is cached
KnownKey(key) == key \in {"valid", "readonly"}

\* the request is answered with status
Answered(c, status) == [c EXCEPT !.pc = "done", !.status = status]

\* a router whose limiter is mounted before verifyApiKey
StageAfterLimiterFirst(stage) ==
  CASE stage = "app" -> "limiter"
    [] stage = "limiter" -> "verify"
    [] stage = "verify" -> "permission"
    [] stage = "permission" -> "handler"

\* router.post('/collect', verifyApiKey, requirePermission('write'),
\* eventCollectionLimiter, [validators], handler) behind the app middleware
StageAfter(stage) ==
  CASE stage = "app" -> "verify"
    [] stage = "verify" -> "permission"
    [] stage = "permission" -> "limiter"
    [] stage = "limiter" -> "handler"

\* next() of the middleware of stage
Passed(c, stage) == [c EXCEPT !.pc = StageAfter(stage), !.did = @ \cup {stage}]

CollectUnchanged == UNCHANGED <<envVars, rlVars, cacheVars, perUser>>

\* a request arrives: requestSizeLimiter, sanitizeInput, preventSQLInjection
\* and apiLimiter of server.js
CollectArrive(key, body) ==
  /\ collect.pc = "idle"
  /\ collect.arrived < MaxArrivals
  /\ LET c == [collect EXCEPT !.key = key, !.body = body, !.status = 0,
                               !.did = {}, !.arrived = @ + 1]
     IN collect' =
          IF body = "sql" THEN Answered(c, 400)
          ELSE LET d == [c EXCEPT !.apiCount = @ + 1]
               IN IF d.apiCount > ApiMax THEN Answered(d, 429) ELSE Passed(d, "app")
  /\ CollectUnchanged

\* verifyApiKey
VerifyApiKey ==
  /\ collect.pc = "verify"
  /\ collect' =
       IF collect.key = "missing" \/ ~KnownKey(collect.key)
       THEN Answered(collect, 401)
       ELSE LET c == [collect EXCEPT !.keyCount = @ + 1, !.did = @ \cup {"incr:key"}]
            IN IF c.keyCount > KeyPerHour THEN Answered(c, 429) ELSE Passed(c, "verify")
  /\ CollectUnchanged

\* requirePermission('write')
RequirePermission ==
  /\ collect.pc = "permission"
  /\ collect' = IF collect.key = "readonly" THEN Answered(collect, 403)
                ELSE Passed(collect, "permission")
  /\ CollectUnchanged

\* eventCollectionLimiter
EventCollectionLimiter ==
  /\ collect.pc = "limiter"
  /\ LET c == [collect EXCEPT !.eventCount = @ + 1, !.did = @ \cup {"incr:events"}]
     IN collect' = IF c.eventCount > EventMax THEN Answered(c, 429)
                   ELSE Passed(c, "limiter")
  /\ CollectUnchanged

\* the validators and the handler: AnalyticsEvent.create, then
\* invalidateCacheByTag(`analytics:${req.appId}`)
CollectHandler ==
  /\ collect.pc = "handler"
  /\ collect' =
       IF collect.body = "noevent" THEN Answered(collect, 400)
       ELSE Answered([collect EXCEPT !.created = @ + 1, !.invalidated = @ + 1,
                                     !.did = @ \cup {"create", "invalidate"}], 201)
  /\ CollectUnchanged

\* the response has gone out
CollectRespond ==
  /\ collect.pc = "done"
  /\ collect' = [collect EXCEPT !.pc = "idle"]
  /\ CollectUnchanged

----------------------------------------------------------------------------
(* perUserRateLimit(maxRequests, windowMs) of security.js *)

\* req.user?.id || req.ip of the requests
UserIds == {"u1", "ip1"}

\* maxRequests and windowMs of the limiter under check
PerUserMax == 2
PerUserWindow == 3

NoDecision == [user |-> "none", at |-> 0, pass |-> FALSE, recorded |-> FALSE]

\* userRequests is empty; passed is the history of the requests let through
NoPerUser ==
  [requests |-> [u \in UserIds |-> <<>>],
   passed |-> [u \in UserIds |-> <<>>],
   last |-> NoDecision]

\* requests.filter(time => now - time < windowMs)
Recent(requests, at, window) ==
  SelectSeq(requests, LAMBDA time : at - time < window)

\* a limiter that pushes the instant of every request
RecordedAlways(recent, at, pass) == Append(recent, at)

\* recentRequests.push(now) happens behind the return of the 429
Recorded(recent, at, pass) == IF pass THEN Append(recent, at) ELSE recent

\* the middleware perUserRateLimit returns, for a request of userId
PerUserRateLimit(userId) ==
  /\ Len(perUser.passed[userId]) < MaxPasses
  /\ LET recent == Recent(perUser.requests[userId], now, PerUserWindow)
         pass == ~(Len(recent) >= PerUserMax)
         list == Recorded(recent, now, pass)
     IN perUser' =
          [requests |-> IF list = recent THEN perUser.requests
                        ELSE [perUser.requests EXCEPT ![userId] = list],
           passed |-> IF pass THEN [perUser.passed EXCEPT ![userId] = Append(@, now)]
                      ELSE perUser.passed,
           last |-> [user |-> userId, at |-> now, pass |-> pass,
                     recorded |-> list # recent]]
  /\ UNCHANGED <<envVars, rlVars, cacheVars, collect>>

----------------------------------------------------------------------------
(* Values and the codec of cacheOptimizer.js *)

Keys == {"k1", "k2"}
Tags == {"t1", "t2"}
Writer == "writer"
Reader == "reader"
TaskIds == {Writer, Reader}

\* values handed to the cache: null, false, 0, '', a short string and one
\* whose JSON.stringify is longer than 1024 characters
Values == {"null", "false", "zero", "empty", "small", "big"}
Falsy == {"null", "false", "zero", "empty"}

\* a JavaScript value: v itself, or the envelope {__compressed: true, data}
\* with data = base64(gzip(JSON.stringify(v)))
Plain(v) == [kind |-> "plain", v |-> v]
Envelope(v) == [kind |-> "env", v |-> v]
Null == Plain("null")
\* an envelope whose data no longer gunzips (truncated or corrupt)
Corrupt(v) == [kind |-> "corrupt", v |-> v]
\* the JavaScript undefined (an array read past its end)
Undefined == [kind |-> "undefined", v |-> "undefined"]

\* `if (value)`: an object is truthy, a primitive by its value
Truthy(js) == js.kind \in {"env", "corrupt"} \/ (js.kind = "plain" /\ js.v \notin Falsy)

\* value.__compressed
Compressed(js) == js.kind \in {"env", "corrupt"}

\* `await gunzip(buffer)` rejects
GunzipThrows(js) == js.kind = "corrupt"

\* JSON.stringify(value).length > 1024
IsLarge(v) == v = "big"

\* a value JSON.stringify throws on
Unencodable == "cyclic"
StringifyThrows(v) == v = Unencodable

\* finalValue of enhancedCacheSet
Encode(v, compress) == IF compress \/ IsLarge(v) THEN Envelope(v) ELSE Plain(v)

\* JSON.parse(gunzip(Buffer.from(value.data, 'base64')).toString())
Gunzip(js) == Plain(js.v)

----------------------------------------------------------------------------
(* config/redis.js over the cache keys *)

NoEntry == [present |-> FALSE, val |-> Null, exp |-> 0]
NoIndex == [present |-> FALSE, keys |-> <<>>, exp |-> 0]
\* life and fromKv are history: the lifetime the slot was given, and whether
\* its value was the key's value at the KV store when the slot was written
NoSlot == [present |-> FALSE, value |-> Null, expires |-> 0,
           life |-> 0, fromKv |-> FALSE]
NoWrite == [state |-> "none", by |-> "none", value |-> Null, tags |-> {},
            defaults |-> FALSE, deleted |-> FALSE, invalidated |-> FALSE,
            warmed |-> FALSE]

\* cacheGet without its isOpen test and its catch: answers from the store
\* whether or not the connection is up
cacheGetNoGuard(k) == IF store[k].present THEN store[k].val ELSE Null

\* cacheGet(key): the parsed value; null when the key is absent or Redis fails
cacheGet(k) == IF kvUp /\ store[k].present THEN store[k].val ELSE Null

\* cacheGet(tagKey) found an array
cacheGetTagFound(tag) == kvUp /\ tagIndex[tag].present

\* cacheGet(tagKey) || []
cacheGetTag(tag) == IF cacheGetTagFound(tag) THEN tagIndex[tag].keys ELSE <<>>

\* cacheSet / cacheDel report whether the command ran
cacheSetOk == kvUp
cacheDelOk == kvUp

\* a write that leaves a key that is there as it is (SET key value EX ttl NX)
SetExIfAbsent(kv, k, val, ttl) ==
  IF kv[k].present THEN kv
  ELSE [kv EXCEPT ![k] = [present |-> TRUE, val |-> val, exp |-> now + ttl * MsPerSec]]

\* SETEX key ttl value
SetEx(kv, k, val, ttl) ==
  [kv EXCEPT ![k] = [present |-> TRUE, val |-> val, exp |-> now + ttl * MsPerSec]]

\* SETEX tagKey ttl keys
SetExTag(idx, tag, keys, ttl) ==
  [idx EXCEPT ![tag] = [present |-> TRUE, keys |-> keys, exp |-> now + ttl * MsPerSec]]

\* Redis drops the cache keys whose expiry has been reached at instant t
ExpireStore(kv, t) ==
  [k \in Keys |-> IF kv[k].present /\ kv[k].exp <= t THEN NoEntry ELSE kv[k]]
ExpireTags(idx, t) ==
  [g \in Tags |-> IF idx[g].present /\ idx[g].exp <= t THEN NoIndex ELSE idx[g]]

----------------------------------------------------------------------------
(* utils/cacheOptimizer.js *)

\* MEMORY_CACHE_SIZE (1000 in the source), scaled
MEMORY_CACHE_SIZE == 1
\* MEMORY_CACHE_TTL in seconds (60 in the source), scaled
MemoryTtlSecs == 2
MEMORY_CACHE_TTL == MemoryTtlSecs * MsPerSec
\* cap on the length of a tag's key list
MaxIndexLen == 2

\* ttl arguments of set, in seconds: below and above MEMORY_CACHE_TTL
Ttls == {1, MemoryTtlSecs + 1}

StatNames == {"hits", "misses", "memoryHits", "redisHits", "sets", "deletes"}
NoStats == [n \in StatNames |-> 0]

\* cacheStats.<name>++ with the miss counter forgotten
BumpNoMiss(stats, name) ==
  IF statsOn /\ name # "misses" THEN [stats EXCEPT ![name] = @ + 1] ELSE stats

\* cacheStats.<name>++
Bump(stats, name) == IF statsOn THEN [stats EXCEPT ![name] = @ + 1] ELSE stats

\* cacheStats.<name> incremented n times
BumpBy(stats, name, n) == IF statsOn THEN [stats EXCEPT ![name] = @ + n] ELSE stats

\* history: one more call of enhancedCacheGet has ended
GetEnded == IF statsOn THEN getCalls + 1 ELSE getCalls

\* memoryCache.size
MemSize(mem) == Cardinality({k \in Keys : mem[k].present})

\* history: value is what the KV store holds for k, as stored or gunzipped
FromStore(k, value) ==
  /\ store[k].present
  /\ \/ store[k].val = value
     \/ Compressed(store[k].val) /\ Plain(store[k].val.v) = value

\* the populate of enhancedCacheGet without its test of memoryCache.size
PopulateNoCap(mem, k, skipMemory, value) ==
  IF ~skipMemory
  THEN [mem EXCEPT ![k] = [present |-> TRUE, value |-> value,
                           expires |-> now + MEMORY_CACHE_TTL,
                           life |-> MEMORY_CACHE_TTL,
                           fromKv |-> FromStore(k, value)]]
  ELSE mem

\* `if (!skipMemory && memoryCache.size < MEMORY_CACHE_SIZE) memoryCache.set(...)`
\* of enhancedCacheGet
Populate(mem, k, skipMemory, value) ==
  IF ~skipMemory /\ MemSize(mem) < MEMORY_CACHE_SIZE
  THEN [mem EXCEPT ![k] = [present |-> TRUE, value |-> value,
                           expires |-> now + MEMORY_CACHE_TTL,
                           life |-> MEMORY_CACHE_TTL,
                           fromKv |-> FromStore(k, value)]]
  ELSE mem

\* `if (!skipMemory && success && memoryCache.size < MEMORY_CACHE_SIZE)`
WritesThrough(mem, skipMemory, success) ==
  ~skipMemory /\ success /\ MemSize(mem) < MEMORY_CACHE_SIZE

\* the write-through of enhancedCacheSet
WriteThrough(mem, k, skipMemory, success, value, ttl) ==
  IF WritesThrough(mem, skipMemory, success)
  THEN [mem EXCEPT ![k] = [present |-> TRUE, value |-> value,
                           expires |-> now + Min(ttl * MsPerSec, MEMORY_CACHE_TTL),
                           life |-> Min(ttl * MsPerSec, MEMORY_CACHE_TTL),
                           fromKv |-> success]]
  ELSE mem

Range(seq) == {seq[i] : i \in 1..Len(seq)}

\* the method of ApiKey a call of the cache belongs to: where the method
\* goes on when the call returns, the row it holds, and (history) when it
\* was called and whether revoke had returned by then
NoCtx == [next |-> "done", record |-> "none", at |-> 0, afterRevoke |-> FALSE]

\* warmCache before its loop: no pair, dataLoader not yet called
NoWarm == [pairs |-> <<>>, loads |-> <<>>, ttl |-> 0]

\* history: the cache as a call of the wrapped function found it
NoBefore ==
  [on |-> FALSE, store |-> [k \in Keys |-> NoEntry],
   tagIndex |-> [g \in Tags |-> NoIndex],
   memoryCache |-> [k \in Keys |-> NoSlot], sets |-> 0]

Before ==
  [on |-> TRUE, store |-> store, tagIndex |-> tagIndex,
   memoryCache |-> memoryCache, sets |-> cacheStats.sets]

TaskIdle ==
  [op |-> "none", pc |-> "idle", key |-> "none", tag |-> "none",
   value |-> Null, ttl |-> 0, skipMemory |-> FALSE, compress |-> FALSE,
   decompress |-> FALSE, tags |-> <<>>, i |-> 0, success |-> FALSE,
   existingKeys |-> <<>>, retVal |-> Null, retOk |-> FALSE, tier |-> "none",
   threw |-> FALSE,
   \* batchCacheGet: keys, memResults, missingKeys and the array returned
   keys |-> <<>>, memResults |-> <<>>, missingKeys |-> <<>>, ret |-> <<>>,
   \* history of the call
   kvFailed |-> FALSE, downAll |-> FALSE, afterInv |-> FALSE, elig |-> {},
   live |-> <<>>, expected |-> <<>>, inserted |-> {}, redisHitsAdded |-> 0,
   corrupt |-> FALSE,
   \* cacheWrapper: fn raised; the cache as the call found it
   raised |-> FALSE, before |-> NoBefore,
   \* the method of ApiKey the call belongs to
   ctx |-> NoCtx,
   \* warmCache: keyValuePairs, and the keys dataLoader was called with
   warm |-> NoWarm,
   \* history of invalidateCacheByTag in flight: the keys whose DEL landed
   dels |-> {}]

Free(t) == tasks[t].pc = "idle"
\* every returned result has been taken by its caller
Settled == \A t \in TaskIds : tasks[t].pc # "done"
Quiet == \A t \in TaskIds : Free(t)

\* `if (cached !== null) return cached;` of cacheWrapper: the wrapped call
\* goes on to fn when its enhancedCacheGet returned null
GoesOnToLoad(me) ==
  me.op = "wrap" /\ me.tier \in {"memory", "redis", "miss"} /\ me.retVal = Null

\* what stays of a call once it has returned
Returned(me) ==
  [TaskIdle EXCEPT !.op = me.op,
     !.pc = IF GoesOnToLoad(me) THEN "wrap:load" ELSE me.ctx.next,
     !.key = me.key, !.tag = me.tag,
     !.skipMemory = me.skipMemory, !.decompress = me.decompress,
     !.retVal = me.retVal, !.retOk = me.retOk, !.tier = me.tier,
     !.threw = me.threw, !.keys = me.keys, !.ret = me.ret,
     !.kvFailed = me.kvFailed, !.downAll = me.downAll, !.afterInv = me.afterInv,
     !.live = me.live, !.expected = me.expected, !.inserted = me.inserted,
     !.redisHitsAdded = me.redisHitsAdded, !.corrupt = me.corrupt,
     !.raised = me.raised, !.before = me.before,
     !.ctx = [me.ctx EXCEPT !.next = "done"], !.warm = me.warm]

\* the caller takes the result of its call
Return(t) ==
  /\ tasks[t].pc = "done"
  /\ tasks' = [tasks EXCEPT ![t] = TaskIdle]
  /\ UNCHANGED <<httpVars, envVars, rlVars, store, tagIndex, memoryCache, cacheStats,
                 statVars, written>>

\* enhancedCacheGet up to `await cacheGet(key)`: the L1 lookup, for the
\* caller whose record is base
GetLookup(t, base, k, skipMemory, decompress) ==
  /\ LET memResult == memoryCache[k]
         call == [base EXCEPT !.key = k,
                    !.skipMemory = skipMemory, !.decompress = decompress,
                    !.downAll = ~kvUp, !.afterInv = written[k].invalidated]
     IN IF ~skipMemory /\ memResult.present /\ memResult.expires > now
        THEN /\ cacheStats' = Bump(Bump(cacheStats, "hits"), "memoryHits")
             /\ tasks' = [tasks EXCEPT ![t] =
                  Returned([call EXCEPT !.retVal = memResult.value,
                                        !.tier = "memory"])]
             /\ getCalls' = GetEnded
             /\ UNCHANGED memoryCache
        ELSE /\ memoryCache' = IF ~skipMemory /\ memResult.present
                               THEN [memoryCache EXCEPT ![k] = NoSlot]
                               ELSE memoryCache
             /\ tasks' = [tasks EXCEPT ![t] = [call EXCEPT !.pc = "get:redis"]]
             /\ UNCHANGED <<cacheStats, getCalls>>
  /\ UNCHANGED <<httpVars, envVars, rlVars, store, tagIndex, statsOn, written>>

EnhancedCacheGet(t, k, skipMemory, decompress) ==
  /\ Free(t)
  /\ GetLookup(t, [TaskIdle EXCEPT !.op = "get"], k, skipMemory, decompress)

\* enhancedCacheGet from the answer of cacheGet to the return or to `await gunzip`
GetRedis(t) ==
  /\ tasks[t].pc = "get:redis"
  /\ LET value == cacheGet(tasks[t].key)
         me == [tasks[t] EXCEPT !.kvFailed = ~kvUp, !.downAll = @ /\ ~kvUp,
                                !.corrupt = GunzipThrows(value)]
     IN IF Truthy(value)
        THEN /\ cacheStats' = Bump(Bump(cacheStats, "hits"), "redisHits")
             /\ IF me.decompress /\ Compressed(value)
                THEN /\ tasks' = [tasks EXCEPT ![t] =
                          [me EXCEPT !.pc = "get:gunzip", !.value = value]]
                     /\ UNCHANGED <<memoryCache, getCalls>>
                ELSE /\ memoryCache' = Populate(memoryCache, me.key, me.skipMemory, value)
                     /\ tasks' = [tasks EXCEPT ![t] =
                          Returned([me EXCEPT !.retVal = value, !.tier = "redis"])]
                     /\ getCalls' = GetEnded
        ELSE /\ cacheStats' = Bump(cacheStats, "misses")
             /\ tasks' = [tasks EXCEPT ![t] =
                  Returned([me EXCEPT !.retVal = Null, !.tier = "miss"])]
             /\ getCalls' = GetEnded
             /\ UNCHANGED memoryCache
  /\ UNCHANGED <<httpVars, envVars, rlVars, store, tagIndex, statsOn, written>>

\* enhancedCacheGet from the answer of gunzip to the return, or to the
\* rejection of the call when gunzip rejects (nothing catches it)
GetGunzip(t) ==
  /\ tasks[t].pc = "get:gunzip"
  /\ LET me == tasks[t]
         value == Gunzip(me.value)
     IN IF GunzipThrows(me.value)
        THEN /\ tasks' = [tasks EXCEPT ![t] =
                  Returned([me EXCEPT !.threw = TRUE, !.tier = "threw"])]
             /\ UNCHANGED memoryCache
        ELSE /\ memoryCache' = Populate(memoryCache, me.key, me.skipMemory, value)
             /\ tasks' = [tasks EXCEPT ![t] =
                  Returned([me EXCEPT !.retVal = value, !.tier = "redis"])]
  /\ getCalls' = GetEnded
  /\ UNCHANGED <<httpVars, envVars, rlVars, store, tagIndex, cacheStats, statsOn, written>>

\* `memResult && memResult.expires > Date.now()`
Live(k) == memoryCache[k].present /\ memoryCache[k].expires > now

\* cacheMGet(keys): [] when Redis is closed or keys is empty, all null when
\* mGet rejects, else `val ? JSON.parse(val) : null` per key
cacheMGet(keys, failure) ==
  IF Len(keys) = 0 THEN <<>>
  ELSE IF kvUp THEN [i \in 1..Len(keys) |-> cacheGet(keys[i])]
  ELSE IF failure = "closed" THEN <<>>
  ELSE [i \in 1..Len(keys) |-> Null]

\* how an unreachable Redis shows to cacheMGet: isOpen false, or mGet rejects
Failures == {"closed", "error"}

RECURSIVE Merge(_, _, _, _)
\* the merge loop of batchCacheGet from index i on; acc carries memResults,
\* memoryCache, missingIdx, and the redisHits and L1 inserts made so far
Merge(keys, redisResults, i, acc) ==
  IF i > Len(keys) THEN acc
  ELSE IF acc.res[i] # Null THEN Merge(keys, redisResults, i + 1, acc)
  ELSE LET r == IF acc.missingIdx <= Len(redisResults)
                THEN redisResults[acc.missingIdx] ELSE Undefined
           hit == r # Null
           ins == hit /\ MemSize(acc.mem) < MEMORY_CACHE_SIZE
           slot == [present |-> TRUE, value |-> r,
                    expires |-> now + MEMORY_CACHE_TTL,
                    life |-> MEMORY_CACHE_TTL,
                    fromKv |-> FromStore(keys[i], r)]
       IN Merge(keys, redisResults, i + 1,
                [res |-> [acc.res EXCEPT ![i] = r],
                 mem |-> IF ins THEN [acc.mem EXCEPT ![keys[i]] = slot] ELSE acc.mem,
                 missingIdx |-> acc.missingIdx + 1,
                 redisHits |-> acc.redisHits + (IF hit THEN 1 ELSE 0),
                 inserted |-> IF ins THEN acc.inserted \cup {keys[i]}
                              ELSE acc.inserted])

\* batchCacheGet up to `await cacheMGet(missingKeys)`: the L1 loop
BatchCacheGet(t, keys) ==
  /\ Free(t)
  /\ LET live == [i \in 1..Len(keys) |-> Live(keys[i])]
         memResults == [i \in 1..Len(keys) |->
                          IF live[i] THEN memoryCache[keys[i]].value ELSE Null]
         missingKeys == SelectSeq(keys, LAMBDA k : ~Live(k))
         call == [TaskIdle EXCEPT !.op = "batch", !.keys = keys,
                    !.memResults = memResults, !.missingKeys = missingKeys,
                    !.live = live, !.downAll = ~kvUp]
     IN /\ cacheStats' = BumpBy(cacheStats, "memoryHits",
                                Cardinality({i \in 1..Len(keys) : live[i]}))
        /\ tasks' = [tasks EXCEPT ![t] =
             IF Len(missingKeys) > 0
             THEN [call EXCEPT !.pc = "batch:mget"]
             ELSE Returned([call EXCEPT !.ret = memResults,
                                        !.expected = memResults])]
  /\ UNCHANGED <<httpVars, envVars, rlVars, store, tagIndex, memoryCache, statVars, written>>

\* batchCacheGet from the answer of cacheMGet to the return
BatchMGet(t) ==
  /\ tasks[t].pc = "batch:mget"
  /\ \E failure \in Failures :
       LET me == tasks[t]
           redisResults == cacheMGet(me.missingKeys, failure)
           m == Merge(me.keys, redisResults, 1,
                      [res |-> me.memResults, mem |-> memoryCache,
                       missingIdx |-> 1, redisHits |-> 0, inserted |-> {}])
           \* history: per key, the L1 value found by the first loop, else
           \* what Redis holds for the key now
           expected == [i \in 1..Len(me.keys) |->
                          IF me.live[i] THEN me.memResults[i]
                          ELSE cacheGet(me.keys[i])]
       IN /\ memoryCache' = m.mem
          /\ cacheStats' = BumpBy(cacheStats, "redisHits", m.redisHits)
          /\ tasks' = [tasks EXCEPT ![t] =
               Returned([me EXCEPT !.ret = m.res, !.expected = expected,
                                   !.inserted = m.inserted,
                                   !.redisHitsAdded = m.redisHits,
                                   !.kvFailed = ~kvUp, !.downAll = @ /\ ~kvUp])]
  /\ UNCHANGED <<httpVars, envVars, rlVars, store, tagIndex, statVars, written>>

\* the end of enhancedCacheSet: `if (success) cacheStats.sets++; return success`
SetReturn(ts, t, me) ==
  /\ cacheStats' = IF me.success THEN Bump(cacheStats, "sets") ELSE cacheStats
  /\ tasks' = [ts EXCEPT ![t] = Returned([me EXCEPT !.retOk = me.success])]

\* history: a write of k that landed takes k out of what the invalidations
\* in flight are held to remove
Rewritten(k, success) ==
  [u \in TaskIds |->
     IF success THEN [tasks[u] EXCEPT !.elig = @ \ {k}] ELSE tasks[u]]

\* history: the set of key k by task t has returned
Completed(w, t, k) ==
  IF w[k].by = t /\ w[k].state = "landed" THEN [w EXCEPT ![k].state = "done"] ELSE w

\* enhancedCacheSet of a value JSON.stringify rejects (a cycle, a BigInt):
\* `JSON.stringify(value)` of the test for compression, or of the argument of
\* gzip when compress is set, throws before anything is awaited or written
EnhancedCacheSetUnencodable(t, k, skipMemory, compress) ==
  /\ Free(t)
  /\ StringifyThrows(Unencodable)
  /\ tasks' = [tasks EXCEPT ![t] =
        Returned([TaskIdle EXCEPT !.op = "set", !.key = k,
                    !.skipMemory = skipMemory, !.threw = TRUE, !.tier = "threw"])]
  /\ UNCHANGED <<httpVars, envVars, rlVars, store, tagIndex, memoryCache, cacheStats,
                 statVars, written>>

\* enhancedCacheSet up to the answer of `await cacheSet(key, finalValue, ttl)`
\* and on to the next await, for the caller whose record is base: gzip and
\* the issue of SETEX touch no shared state
SetWrite(t, base, k, v, ttl, skipMemory, compress, tags) ==
  /\ ~StringifyThrows(v)
  /\ \A i \in 1..Len(tags) :
        Len(tagIndex[tags[i]].keys)
          + Cardinality({u \in TaskIds : tasks[u].pc \in {"set:tagread", "set:tagwrite"}})
          < MaxIndexLen
  /\ LET finalValue == Encode(v, compress)
         success == cacheSetOk
         me == [base EXCEPT !.key = k, !.value = Plain(v),
                  !.ttl = ttl, !.skipMemory = skipMemory, !.compress = compress,
                  !.tags = tags, !.success = success, !.i = 1,
                  !.kvFailed = ~kvUp, !.downAll = ~kvUp,
                  !.inserted = IF WritesThrough(memoryCache, skipMemory, success)
                               THEN {k} ELSE {}]
         landed == IF success
                   THEN [written EXCEPT ![k] =
                           [state |-> "landed", by |-> t, value |-> Plain(v),
                            tags |-> Range(tags),
                            defaults |-> (~skipMemory /\ ~compress),
                            deleted |-> FALSE, invalidated |-> FALSE,
                            warmed |-> FALSE]]
                   ELSE written
     IN /\ store' = IF success THEN SetEx(store, k, finalValue, ttl) ELSE store
        /\ memoryCache' = WriteThrough(memoryCache, k, skipMemory, success, Plain(v), ttl)
        /\ IF Len(tags) > 0
           THEN /\ tasks' = [Rewritten(k, success) EXCEPT ![t] =
                                [me EXCEPT !.pc = "set:tagread"]]
                /\ written' = landed
                /\ UNCHANGED cacheStats
           ELSE /\ SetReturn(Rewritten(k, success), t, me)
                /\ written' = Completed(landed, t, k)
  /\ UNCHANGED <<httpVars, envVars, rlVars, tagIndex, statVars>>

EnhancedCacheSet(t, k, v, ttl, skipMemory, compress, tags) ==
  /\ Free(t)
  /\ SetWrite(t, [TaskIdle EXCEPT !.op = "set"], k, v, ttl, skipMemory, compress, tags)

\* enhancedCacheSet: the answer of `await cacheGet(tagKey)` and the push
SetTagRead(t) ==
  /\ tasks[t].pc = "set:tagread"
  /\ LET me == tasks[t]
         existingKeys == cacheGetTag(me.tags[me.i])
     IN tasks' = [tasks EXCEPT ![t] =
          [me EXCEPT !.pc = "set:tagwrite",
                     !.existingKeys = Append(existingKeys, me.key),
                     !.kvFailed = @ \/ ~kvUp, !.downAll = @ /\ ~kvUp]]
  /\ UNCHANGED <<httpVars, envVars, rlVars, store, tagIndex, memoryCache, cacheStats,
                 statVars, written>>

\* enhancedCacheSet: the answer of `await cacheSet(tagKey, existingKeys, ttl)`
SetTagWrite(t) ==
  /\ tasks[t].pc = "set:tagwrite"
  /\ LET me == [tasks[t] EXCEPT !.kvFailed = @ \/ ~kvUp, !.downAll = @ /\ ~kvUp]
         tag == me.tags[me.i]
     IN /\ tagIndex' = IF cacheSetOk
                       THEN SetExTag(tagIndex, tag, me.existingKeys, me.ttl)
                       ELSE tagIndex
        /\ IF me.i < Len(me.tags)
           THEN /\ tasks' = [tasks EXCEPT ![t] =
                     [me EXCEPT !.pc = "set:tagread", !.i = @ + 1,
                                !.existingKeys = <<>>]]
                /\ UNCHANGED <<cacheStats, written>>
           ELSE /\ SetReturn(tasks, t, me)
                /\ written' = Completed(written, t, me.key)
  /\ UNCHANGED <<httpVars, envVars, rlVars, store, memoryCache, statVars>>

\* history: an invalidateByTag has returned; the keys it was to remove
Invalidated(w, elig) ==
  [k \in Keys |-> IF k \in elig THEN [w[k] EXCEPT !.invalidated = TRUE] ELSE w[k]]

\* history: the keys a successful set wrote under tag and nobody wrote since
TaggedKeys(tag) ==
  {k \in Keys : written[k].state = "done" /\ tag \in written[k].tags}

\* what `await fn(...args)` gives: a value, or an error raised
Raises == "raises"
LoaderResults == {"small", "big", Raises}

\* a wrapper that would cache whatever fn gave, an error included
PropagatesNever(result) == FALSE

\* `const result = await fn(...args)`: an error fn raises leaves the wrapper
\* here, nothing catches it
Propagates(result) == result = Raises

\* the function cacheWrapper returns, up to `await cacheGet(key)` of its
\* enhancedCacheGet(key, {decompress: compress})
CacheWrapper(t, k, compress) ==
  /\ Free(t)
  /\ GetLookup(t, [TaskIdle EXCEPT !.op = "wrap", !.before = Before], k, FALSE, compress)

\* the wrapped call from the answer of fn to its rejection, or through
\* enhancedCacheSet(key, result, ttl, {compress, tags}) to its next await
WrapLoad(t, result, ttl, tags) ==
  /\ tasks[t].pc = "wrap:load"
  /\ LET me == tasks[t]
         base == [TaskIdle EXCEPT !.op = "wrap", !.raised = (result = Raises),
                    !.before = me.before, !.decompress = me.decompress,
                    !.kvFailed = me.kvFailed, !.retVal = Plain(result)]
     IN IF Propagates(result)
        THEN /\ tasks' = [tasks EXCEPT ![t] =
                  Returned([base EXCEPT !.key = me.key, !.threw = TRUE,
                                        !.tier = "threw", !.retVal = Null])]
             /\ UNCHANGED <<httpVars, envVars, rlVars, store, tagIndex, memoryCache,
                            cacheStats, statVars, written>>
        ELSE SetWrite(t, base, me.key, result, ttl, FALSE, me.decompress, tags)

\* invalidateCacheByTag up to the answer of `await cacheGet(tagKey)`, the
\* deletes from memoryCache and the issue of the first DEL, for the caller
\* whose record is base
InvLookup(t, base, tag) ==
  /\ LET keys == cacheGetTag(tag)
         me == [base EXCEPT !.tag = tag, !.existingKeys = keys,
                  !.i = 1, !.kvFailed = ~kvUp, !.downAll = ~kvUp,
                  !.elig = TaggedKeys(tag)]
     IN IF cacheGetTagFound(tag)
        THEN /\ memoryCache' = [k \in Keys |->
                  IF k \in Range(keys) THEN NoSlot ELSE memoryCache[k]]
             /\ tasks' = [tasks EXCEPT ![t] =
                  [me EXCEPT !.pc = IF Len(keys) > 0 THEN "inv:del" ELSE "inv:deltag"]]
             /\ UNCHANGED written
        ELSE /\ tasks' = [tasks EXCEPT ![t] = Returned(me)]
             /\ written' = Invalidated(written, me.elig)
             /\ UNCHANGED memoryCache
  /\ UNCHANGED <<httpVars, envVars, rlVars, store, tagIndex, cacheStats, statVars>>

InvalidateCacheByTag(t, tag) ==
  /\ Free(t)
  /\ InvLookup(t, [TaskIdle EXCEPT !.op = "inv"], tag)

\* invalidateCacheByTag: the answer of one `await cacheDel(key)`
InvDel(t) ==
  /\ tasks[t].pc = "inv:del"
  /\ LET k == tasks[t].existingKeys[tasks[t].i]
         me == [tasks[t] EXCEPT !.kvFailed = @ \/ ~kvUp, !.downAll = @ /\ ~kvUp,
                                !.dels = IF cacheDelOk THEN @ \cup {k} ELSE @]
     IN /\ store' = IF cacheDelOk THEN [store EXCEPT ![k] = NoEntry] ELSE store
        /\ written' = IF cacheDelOk THEN [written EXCEPT ![k].deleted = TRUE] ELSE written
        /\ cacheStats' = Bump(cacheStats, "deletes")
        /\ tasks' = [tasks EXCEPT ![t] =
             IF me.i < Len(me.existingKeys)
             THEN [me EXCEPT !.i = @ + 1]
             ELSE [me EXCEPT !.pc = "inv:deltag"]]
  /\ UNCHANGED <<httpVars, envVars, rlVars, tagIndex, memoryCache, statVars>>

\* invalidateCacheByTag: the answer of `await cacheDel(tagKey)`
InvDelTag(t) ==
  /\ tasks[t].pc = "inv:deltag"
  /\ LET me == [tasks[t] EXCEPT !.kvFailed = @ \/ ~kvUp, !.downAll = @ /\ ~kvUp]
     IN /\ tagIndex' = IF cacheDelOk THEN [tagIndex EXCEPT ![me.tag] = NoIndex]
                       ELSE tagIndex
        /\ written' = Invalidated(written, me.elig)
        /\ tasks' = [tasks EXCEPT ![t] = Returned(me)]
  /\ UNCHANGED <<httpVars, envVars, rlVars, store, memoryCache, cacheStats, statVars>>

----------------------------------------------------------------------------
(* warmCache(dataLoader, keys, ttl) of cacheOptimizer.js over cacheMSet    *)

\* what dataLoader answers for a key
Loaded == {"null", "small", "big"}

\* `pipeline.setEx(key, ttl, JSON.stringify(value))` for the pairs from i on
RECURSIVE MSetEx(_, _, _, _)
MSetEx(kv, pairs, i, ttl) ==
  IF i > Len(pairs) THEN kv
  ELSE MSetEx(SetEx(kv, pairs[i][1], Plain(pairs[i][2]), ttl), pairs, i + 1, ttl)

\* history: the value the last pair of k carries
RECURSIVE LastOf(_, _, _)
LastOf(pairs, k, i) ==
  IF i = 0 THEN "null"
  ELSE IF pairs[i][1] = k THEN pairs[i][2] ELSE LastOf(pairs, k, i - 1)

\* history: the pairs of a warm are what the KV store holds
WarmWritten(w, t, pairs) ==
  [k \in Keys |->
     IF \E i \in 1..Len(pairs) : pairs[i][1] = k
     THEN [state |-> "done", by |-> t, value |-> Plain(LastOf(pairs, k, Len(pairs))),
           tags |-> {}, defaults |-> FALSE, deleted |-> FALSE,
           invalidated |-> FALSE, warmed |-> TRUE]
     ELSE w[k]]

\* warmCache up to its first `await dataLoader(key)`, or to its return when
\* keys is empty
WarmCache(t, keys, ttl) ==
  /\ Free(t)
  /\ LET me == [TaskIdle EXCEPT !.op = "warm", !.keys = keys, !.i = 1,
                   !.warm = [pairs |-> <<>>, loads |-> <<>>, ttl |-> ttl]]
     IN tasks' = [tasks EXCEPT ![t] =
          IF Len(keys) = 0 THEN Returned(me) ELSE [me EXCEPT !.pc = "warm:load"]]
  /\ UNCHANGED <<httpVars, envVars, rlVars, store, tagIndex, memoryCache, cacheStats,
                 statVars, written>>

\* dataLoader answers value for keys[i]: the push, then the next
\* `await dataLoader`, the `await cacheMSet` or the return
WarmLoad(t, value) ==
  /\ tasks[t].pc = "warm:load"
  /\ LET me == tasks[t]
         key == me.keys[me.i]
         pairs == IF value # "null" THEN Append(me.warm.pairs, <<key, value>>)
                  ELSE me.warm.pairs
         next == [me EXCEPT !.i = @ + 1, !.warm.pairs = pairs,
                            !.warm.loads = Append(@, key)]
     IN tasks' = [tasks EXCEPT ![t] =
          IF next.i <= Len(me.keys) THEN next
          ELSE IF Len(pairs) > 0 THEN [next EXCEPT !.pc = "warm:mset"]
          ELSE Returned(next)]
  /\ UNCHANGED <<httpVars, envVars, rlVars, store, tagIndex, memoryCache, cacheStats,
                 statVars, written>>

\* cacheMSet answers: the MULTI of the SETEX commands ran, or false when
\* Redis is closed or exec rejects; then `cacheStats.sets += length`
WarmMSet(t) ==
  /\ tasks[t].pc = "warm:mset"
  /\ LET me == tasks[t]
         pairs == me.warm.pairs
         success == kvUp
     IN /\ store' = IF success THEN MSetEx(store, pairs, 1, me.warm.ttl) ELSE store
        /\ written' = IF success THEN WarmWritten(written, t, pairs) ELSE written
        /\ cacheStats' = BumpBy(cacheStats, "sets", Len(pairs))
        /\ tasks' = [tasks EXCEPT ![t] =
              Returned([me EXCEPT !.success = success, !.kvFailed = ~kvUp])]
  /\ UNCHANGED <<httpVars, envVars, rlVars, tagIndex, memoryCache, statVars>>

----------------------------------------------------------------------------
(* ApiKey.validateAndGet and ApiKey.revoke of models/ApiKey.js, for the one *)
(* API key of the model, over the cache above and the api_keys row db      *)

\* apikey:valid:<hash>, apikey:hash:<hash>, and the tags apikey:<id>, app:<appId>
ValidKey == "k1"
HashKey == "k2"
KeyTag == "t1"
AppTag == "t2"

\* what the two keys hold: the row with is_active true or false, 'invalid'
ActiveRow == "active"
RevokedRow == "revoked"
Invalid == "invalid"

\* the lifetimes validateAndGet caches with: 300 s, longer than the 60 s of
\* an L1 slot, for a row; 60 s for 'invalid'
RowTtlSecs == MemoryTtlSecs + 1
InvalidTtlSecs == MemoryTtlSecs

\* expires_at of a key that has none
NoExpiry == 0 - 1

\* an active API key
ActiveKey(expiresAt) == [active |-> TRUE, expiresAt |-> expiresAt, revoked |-> FALSE]

\* SELECT ... FROM api_keys WHERE key_hash = $1
Row(d) == IF d.active THEN ActiveRow ELSE RevokedRow

\* apiKeyRecord.is_active
IsActive(record) == record = ActiveRow

\* `apiKeyRecord.expires_at && new Date(apiKeyRecord.expires_at) < new Date()`
IsExpired(d, at) == d.expiresAt # NoExpiry /\ d.expiresAt < at

\* all but tasks
ApiKeyUnchanged ==
  UNCHANGED <<httpVars, envVars, rlVars, store, tagIndex, memoryCache, cacheStats,
              statVars, written>>

\* validateAndGet up to `await cacheGet` of its enhancedCacheGet(validationCacheKey)
ValidateAndGet(t) ==
  /\ Free(t)
  /\ GetLookup(t, [TaskIdle EXCEPT !.op = "validate",
                     !.ctx = [next |-> "validate:cached", record |-> "none",
                              at |-> now, afterRevoke |-> db.revoked]],
               ValidKey, FALSE, FALSE)

\* validateAndGet from `if (!apiKeyRecord.is_active)` to the await of the
\* enhancedCacheSet that caches the verdict
CheckAndCache(t, record, ctx) ==
  LET base == [TaskIdle EXCEPT !.op = "validate", !.ctx = [ctx EXCEPT !.next = "done"]]
  IN IF ~IsActive(record) \/ IsExpired(db, now)
     THEN SetWrite(t, [base EXCEPT !.retVal = Null],
                   ValidKey, Invalid, InvalidTtlSecs, FALSE, FALSE, <<>>)
     ELSE SetWrite(t, [base EXCEPT !.retVal = Plain(record)],
                   ValidKey, record, RowTtlSecs, FALSE, FALSE, <<KeyTag>>)

\* validateAndGet from the return of enhancedCacheGet(validationCacheKey) to
\* its own return, or to `await cacheGet` of findByHash
ValidateCached(t) ==
  /\ tasks[t].pc = "validate:cached"
  /\ LET me == tasks[t]
         cachedValidation == me.retVal
     IN IF cachedValidation # Null
        THEN /\ tasks' = [tasks EXCEPT ![t] =
                  Returned([me EXCEPT !.retVal =
                     IF cachedValidation = Plain(Invalid) THEN Null
                     ELSE cachedValidation])]
             /\ ApiKeyUnchanged
        ELSE GetLookup(t, [TaskIdle EXCEPT !.op = "validate",
                             !.ctx = [me.ctx EXCEPT !.next = "validate:hash"]],
                       HashKey, FALSE, FALSE)

\* findByHash from the return of enhancedCacheGet(cacheKey): `if (cached)
\* return cached` and the checks of validateAndGet, or `await queryRead`
ValidateHash(t) ==
  /\ tasks[t].pc = "validate:hash"
  /\ LET me == tasks[t]
         cached == me.retVal
     IN IF Truthy(cached)
        THEN CheckAndCache(t, cached.v, me.ctx)
        ELSE /\ tasks' = [tasks EXCEPT ![t] = [me EXCEPT !.pc = "validate:db"]]
             /\ ApiKeyUnchanged

\* findByHash from the answer of queryRead to the await of
\* enhancedCacheSet(cacheKey, apiKey, 300, {tags})
ValidateDb(t) ==
  /\ tasks[t].pc = "validate:db"
  /\ LET me == tasks[t]
         apiKey == Row(db)
     IN SetWrite(t, [TaskIdle EXCEPT !.op = "validate",
                       !.ctx = [me.ctx EXCEPT !.next = "validate:check",
                                              !.record = apiKey]],
                 HashKey, apiKey, RowTtlSecs, FALSE, FALSE, <<AppTag, KeyTag>>)

\* validateAndGet from the return of findByHash
ValidateCheck(t) ==
  /\ tasks[t].pc = "validate:check"
  /\ CheckAndCache(t, tasks[t].ctx.record, tasks[t].ctx)

\* revoke up to the answer of its UPDATE
Revoke(t) ==
  /\ Free(t)
  /\ db.active
  /\ db' = [db EXCEPT !.active = FALSE]
  /\ tasks' = [tasks EXCEPT ![t] =
       [TaskIdle EXCEPT !.op = "revoke", !.pc = "revoke:keytag"]]
  /\ UNCHANGED <<httpVars, now, kvUp, outageSeen, rlVars, store, tagIndex, memoryCache,
                 cacheStats, statVars, written>>

\* revoke: invalidateCacheByTag(`apikey:${id}`) up to its first answer
RevokeKeyTag(t) ==
  /\ tasks[t].pc = "revoke:keytag"
  /\ InvLookup(t, [TaskIdle EXCEPT !.op = "revoke",
                     !.ctx = [NoCtx EXCEPT !.next = "revoke:apptag"]], KeyTag)

\* revoke: invalidateCacheByTag(`app:${revokedKey.app_id}`) up to its first answer
RevokeAppTag(t) ==
  /\ tasks[t].pc = "revoke:apptag"
  /\ InvLookup(t, [TaskIdle EXCEPT !.op = "revoke",
                     !.ctx = [NoCtx EXCEPT !.next = "revoke:end"]], AppTag)

\* revoke returns revokedKey
RevokeEnd(t) ==
  /\ tasks[t].pc = "revoke:end"
  /\ db' = [db EXCEPT !.revoked = TRUE]
  /\ tasks' = [tasks EXCEPT ![t] = Returned(tasks[t])]
  /\ UNCHANGED <<httpVars, now, kvUp, outageSeen, rlVars, store, tagIndex, memoryCache,
                 cacheStats, statVars, written>>

\* cleanMemoryCache, run by setInterval
\* a sweep that empties L1, as clearMemoryCache does
CleanAll ==
  /\ Settled
  /\ \E k \in Keys : memoryCache[k].present
  /\ memoryCache' = [k \in Keys |-> NoSlot]
  /\ UNCHANGED <<httpVars, envVars, rlVars, store, tagIndex, cacheStats, statVars, tasks, written>>

CleanMemoryCache ==
  /\ Settled
  /\ \E k \in Keys : memoryCache[k].present /\ memoryCache[k].expires <= now
  /\ memoryCache' = [k \in Keys |->
       IF memoryCache[k].present /\ memoryCache[k].expires <= now
       THEN NoSlot ELSE memoryCache[k]]
  /\ UNCHANGED <<httpVars, envVars, rlVars, store, tagIndex, cacheStats, statVars, tasks, written>>

\* (x / y * 100).toFixed(2), in hundredths of a percent
Pct(x, y) == (2 * 10000 * x + y) \div (2 * y)

\* hitRate of getCacheStatistics
HitRate(stats) ==
  IF stats.hits + stats.misses > 0
  THEN [kind |-> "percent", v |-> Pct(stats.hits, stats.hits + stats.misses)]
  ELSE [kind |-> "percent", v |-> 0]

\* memoryHitRate of getCacheStatistics: the division runs whenever
\* memoryHits > 0, and x / 0 is Infinity
MemoryHitRate(stats) ==
  IF stats.memoryHits > 0
  THEN IF stats.hits = 0
       THEN [kind |-> "Infinity", v |-> 0]
       ELSE [kind |-> "percent", v |-> Pct(stats.memoryHits, stats.hits)]
  ELSE [kind |-> "percent", v |-> 0]

\* a reset that also empties L1, as clearMemoryCache does
ResetAndClear ==
  /\ Quiet
  /\ statsOn
  /\ cacheStats # NoStats
  /\ cacheStats' = NoStats
  /\ getCalls' = 0
  /\ memoryCache' = [k \in Keys |-> NoSlot]
  /\ UNCHANGED <<httpVars, envVars, rlVars, store, tagIndex, statsOn, tasks, written>>

\* resetCacheStatistics, called between two requests
ResetCacheStatistics ==
  /\ Quiet
  /\ statsOn
  /\ cacheStats # NoStats
  /\ cacheStats' = NoStats
  /\ getCalls' = 0
  /\ UNCHANGED <<httpVars, envVars, rlVars, store, tagIndex, memoryCache, statsOn, tasks, written>>

----------------------------------------------------------------------------
(* Environment *)

\* the envelope stored under k is truncated or damaged at the store
CorruptEntry(k) ==
  /\ Quiet
  /\ store[k].present
  /\ store[k].val.kind = "env"
  /\ store' = [store EXCEPT ![k].val = Corrupt(store[k].val.v)]
  /\ UNCHANGED <<httpVars, envVars, rlVars, tagIndex, memoryCache, cacheStats, statVars,
                 tasks, written>>

KvDown ==
  /\ kvUp
  /\ Settled
  /\ kvUp' = FALSE
  /\ outageSeen' = TRUE
  /\ UNCHANGED <<httpVars, now, db, rlVars, cacheVars>>

KvRecover ==
  /\ ~kvUp
  /\ Settled
  /\ kvUp' = TRUE
  /\ UNCHANGED <<httpVars, now, outageSeen, db, rlVars, cacheVars>>

\* history: a key whose entry expired is no longer a written key
ExpireWritten(w, kv, t) ==
  [k \in Keys |-> IF kv[k].present /\ kv[k].exp <= t THEN NoWrite ELSE w[k]]

\* d milliseconds pass; Redis expires what is due.  A call's round trips
\* are shorter than the resolution of the clock.
Tick(d) ==
  /\ now + d <= MaxTime
  /\ rl.pc = "idle"
  /\ Quiet
  /\ now' = now + d
  /\ counters' = ExpireCounters(counters, now + d)
  /\ store' = ExpireStore(store, now + d)
  /\ tagIndex' = ExpireTags(tagIndex, now + d)
  /\ written' = ExpireWritten(written, store, now + d)
  /\ UNCHANGED <<httpVars, kvUp, outageSeen, db, rl, rlLast, limiter, windowMs, rateLimitPerHour,
                 winExact, winTtl, ctrBorn, crashSeen, allowedAt, memoryCache, cacheStats,
                 statVars, tasks>>

TickMs == Tick(1)
TickSec == Tick(MsPerSec)

----------------------------------------------------------------------------
(* Specification of the rate limiters *)

InitClock ==
  /\ now = 0
  /\ kvUp = TRUE
  /\ outageSeen = FALSE
  /\ collect = NoCollect
  /\ perUser = NoPerUser

InitEnv ==
  /\ InitClock
  /\ db = ActiveKey(NoExpiry)

\* no rate-limit traffic
InitNoRL ==
  /\ counters = [k \in CtrKeys |-> NoCounter]
  /\ rl = RlIdle
  /\ rlLast = NoCheck
  /\ limiter = "none" /\ windowMs = MsPerSec /\ rateLimitPerHour = 0
  /\ winExact = NoWindow
  /\ winTtl = NoWindow
  /\ ctrBorn = 0
  /\ crashSeen = FALSE
  /\ allowedAt = NoLog(FALSE)

\* a fresh process and an empty store
InitProcess ==
  /\ store = [k \in Keys |-> NoEntry]
  /\ tagIndex = [g \in Tags |-> NoIndex]
  /\ memoryCache = [k \in Keys |-> NoSlot]
  /\ cacheStats = NoStats
  /\ getCalls = 0
  /\ tasks = [t \in TaskIds |-> TaskIdle]
  /\ written = [k \in Keys |-> NoWrite]

InitCache ==
  /\ InitProcess
  /\ statsOn = FALSE

\* one limiter, its configuration chosen at construction, and no counter
InitLimiter ==
  /\ InitEnv
  /\ InitCache
  /\ counters = [k \in CtrKeys |-> NoCounter]
  /\ rl = RlIdle
  /\ rlLast = NoCheck
  /\ \/ limiter = "opt" /\ windowMs \in Windows /\ rateLimitPerHour = 0
     \/ limiter = "apikey" /\ windowMs = MsPerSec /\ rateLimitPerHour \in PerHourValues
  /\ winExact = NoWindow
  /\ winTtl = NoWindow
  /\ ctrBorn = 0
  /\ crashSeen = FALSE

InitRL ==
  /\ InitLimiter
  /\ allowedAt = NoLog(FALSE)

NextRL ==
  \/ OptimizedRateLimiterCheck
  \/ VerifyApiKeyCheck
  \/ CacheIncrExpire
  \/ CrashInIncr
  \/ KvDown
  \/ KvRecover
  \/ TickMs

SpecRL == InitRL /\ [][NextRL]_vars

\* the limiters with the KV store always reachable, every let-through logged
InitBurst ==
  /\ InitLimiter
  /\ allowedAt = NoLog(TRUE)

NextBurst ==
  \/ OptimizedRateLimiterCheck
  \/ VerifyApiKeyCheck
  \/ CacheIncrExpire
  \/ TickMs

SpecBurst == InitBurst /\ [][NextBurst]_vars

----------------------------------------------------------------------------
(* Specification of the cache: one caller that awaits each call *)

Init ==
  /\ InitEnv
  /\ InitNoRL
  /\ InitCache

\* the calls of the request-handling unit t, their arguments drawn from the
\* given sets
Gets(t, keys, flags) ==
  \/ \E k \in keys, skipMemory \in flags, decompress \in flags :
        EnhancedCacheGet(t, k, skipMemory, decompress)
  \/ GetRedis(t)

Sets(t, keys, values, ttls, flags, tagChoices) ==
  \E k \in keys, v \in values, ttl \in ttls, skipMemory \in flags,
     compress \in flags, tags \in tagChoices :
     EnhancedCacheSet(t, k, v, ttl, skipMemory, compress, tags)

BatchGets(t, keySeqs) ==
  \/ \E keys \in keySeqs : BatchCacheGet(t, keys)
  \/ BatchMGet(t)

TagRegistration(t) ==
  \/ SetTagRead(t)
  \/ SetTagWrite(t)

Invalidation(t, tagSet) ==
  \/ \E tag \in tagSet : InvalidateCacheByTag(t, tag)
  \/ InvDel(t)
  \/ InvDelTag(t)

\* one caller that awaits each call, one key, every value and option
Next ==
  \/ Gets(Writer, {"k1"}, BOOLEAN)
  \/ GetGunzip(Writer)
  \/ Sets(Writer, {"k1"}, Values, Ttls, BOOLEAN, {<<>>})
  \/ Return(Writer)
  \/ CleanMemoryCache
  \/ KvDown
  \/ KvRecover
  \/ TickSec

Spec == Init /\ [][Next]_vars

----------------------------------------------------------------------------
(* Specification of batchCacheGet: one caller, two keys, an L1 of          *)
(* MEMORY_CACHE_SIZE slots, outages and the clock                          *)

\* longest keys array handed to batchCacheGet
MaxBatch == 2
KeySeqs == UNION {[1..n -> Keys] : n \in 1..MaxBatch}

NextBatch ==
  \/ Sets(Writer, Keys, {"null", "small"}, Ttls, {FALSE}, {<<>>})
  \/ BatchGets(Writer, KeySeqs)
  \/ Gets(Writer, Keys, {FALSE})
  \/ Return(Writer)
  \/ CleanMemoryCache
  \/ KvDown
  \/ KvRecover
  \/ TickSec

SpecBatch == Init /\ [][NextBatch]_vars

\* calls of enhancedCacheGet between two resets
MaxGets == 3
\* cap on the counters the other calls increment
MaxStat == 2

\* a fresh process whose cacheStats are observed
InitStats ==
  /\ InitEnv
  /\ InitNoRL
  /\ InitProcess
  /\ statsOn = TRUE

----------------------------------------------------------------------------
(* Specification of the writes: one caller, one key, values that encode    *)
(* and a value that does not, outages                                      *)

NextEncode ==
  \/ Sets(Writer, {"k1"}, {"small", "big"}, Ttls, BOOLEAN, {<<>>})
  \/ \E skipMemory \in BOOLEAN, compress \in BOOLEAN :
        EnhancedCacheSetUnencodable(Writer, "k1", skipMemory, compress)
  \/ Gets(Writer, {"k1"}, {FALSE})
  \/ Return(Writer)
  \/ KvDown
  \/ KvRecover
  \/ TickSec

SpecEncode == Init /\ [][NextEncode]_vars

----------------------------------------------------------------------------
(* Specification of event collection: requests to POST                     *)
(* /api/analytics/collect, one after the other, with every key and body    *)

NextCollect ==
  \/ \E key \in ApiKeyHeaders, body \in Bodies : CollectArrive(key, body)
  \/ VerifyApiKey
  \/ RequirePermission
  \/ EventCollectionLimiter
  \/ CollectHandler
  \/ CollectRespond

SpecCollect == Init /\ [][NextCollect]_vars

----------------------------------------------------------------------------
(* Specification of perUserRateLimit: requests of two users as time passes *)

NextPerUser ==
  \/ \E userId \in UserIds : PerUserRateLimit(userId)
  \/ TickMs

SpecPerUser == Init /\ [][NextPerUser]_vars

----------------------------------------------------------------------------
(* Specification of warming: one caller sets, warms and gets two keys,     *)
(* with outages and the clock                                              *)

Warming(t) ==
  \/ \E keys \in KeySeqs \cup {<<>>} : WarmCache(t, keys, MemoryTtlSecs + 1)
  \/ \E value \in Loaded : WarmLoad(t, value)
  \/ WarmMSet(t)

NextWarm ==
  \/ Sets(Writer, {"k1"}, {"small"}, {MemoryTtlSecs + 1}, {FALSE}, {<<>>})
  \/ Warming(Writer)
  \/ Gets(Writer, Keys, {FALSE})
  \/ Return(Writer)
  \/ KvDown
  \/ KvRecover
  \/ TickSec

SpecWarm == Init /\ [][NextWarm]_vars

----------------------------------------------------------------------------
(* Specification of invalidation under outages: one caller, tagged sets    *)
(* and invalidateByTag, the connection to Redis going down and coming back *)

NextFlap ==
  \/ Sets(Writer, Keys, {"small"}, {MemoryTtlSecs + 1}, {FALSE}, {<<"t1">>})
  \/ TagRegistration(Writer)
  \/ Invalidation(Writer, {"t1"})
  \/ Return(Writer)
  \/ KvDown
  \/ KvRecover

SpecFlap == Init /\ [][NextFlap]_vars

----------------------------------------------------------------------------
(* Specification of the sweep: one caller sets keys while the clock runs   *)
(* and the timer of cleanMemoryCache fires.  A set is not made so late     *)
(* that its slot would outlive the last instant of the clock.              *)

NextSweep ==
  \/ (now + MEMORY_CACHE_TTL <= MaxTime
        /\ Sets(Writer, Keys, {"small"}, Ttls, {FALSE}, {<<>>}))
  \/ Return(Writer)
  \/ CleanMemoryCache
  \/ TickMs

\* time passes and the interval timer fires, however busy the caller is;
\* a result that is ready is taken
FairSweep ==
  /\ SF_vars(TickMs)
  /\ SF_vars(CleanMemoryCache)
  /\ WF_vars(Return(Writer))

SpecSweep == Init /\ [][NextSweep]_vars /\ FairSweep

----------------------------------------------------------------------------
(* Specification of one memoized function: one wrapper made with the       *)
(* default options (compress false), its calls for one key, the clock and  *)
(* outages                                                                 *)

NextMemo ==
  \/ CacheWrapper(Writer, "k1", FALSE)
  \/ GetRedis(Writer)
  \/ \E result \in LoaderResults : WrapLoad(Writer, result, MemoryTtlSecs + 1, <<>>)
  \/ Return(Writer)
  \/ KvDown
  \/ KvRecover
  \/ TickSec

SpecMemo == Init /\ [][NextMemo]_vars

----------------------------------------------------------------------------
(* Specification of the two tiers: a key is set while no call is in        *)
(* flight, then read through L1 by one request and past L1 (skipMemory)    *)
(* by another, the KV store available                                      *)

NextTier ==
  \/ (Quiet /\ Sets(Writer, {"k1"}, {"zero", "small", "big"}, {MemoryTtlSecs + 1},
                    {FALSE}, {<<>>}))
  \/ (Quiet /\ \E compress \in BOOLEAN :
         EnhancedCacheSet(Writer, "k1", "small", MemoryTtlSecs + 1, FALSE, compress, <<>>))
  \/ \E decompress \in BOOLEAN : EnhancedCacheGet(Writer, "k1", FALSE, decompress)
  \/ \E decompress \in BOOLEAN : EnhancedCacheGet(Reader, "k1", TRUE, decompress)
  \/ \E t \in TaskIds : GetRedis(t) \/ GetGunzip(t) \/ Return(t)

SpecTier == Init /\ [][NextTier]_vars

----------------------------------------------------------------------------
(* Specification of revocation: requests that validate the API key, one    *)
(* that revokes it, one after the other, through outages                   *)

Validation(t) ==
  \/ ValidateAndGet(t)
  \/ ValidateCached(t)
  \/ ValidateHash(t)
  \/ ValidateDb(t)
  \/ ValidateCheck(t)
  \/ GetRedis(t)
  \/ TagRegistration(t)

Revocation(t) ==
  \/ Revoke(t)
  \/ RevokeKeyTag(t)
  \/ RevokeAppTag(t)
  \/ RevokeEnd(t)
  \/ InvDel(t)
  \/ InvDelTag(t)

NextRevoke ==
  \/ Validation(Writer)
  \/ Revocation(Writer)
  \/ Return(Writer)
  \/ KvDown
  \/ KvRecover
  \/ TickSec

SpecRevoke == Init /\ [][NextRevoke]_vars

----------------------------------------------------------------------------
(* Specification of expiration: requests validating an API key that        *)
(* expires while the process runs                                          *)

\* expires_at of the key: one second after the process started
KeyExpiresAt == MsPerSec

InitExpiry ==
  /\ InitClock
  /\ db = ActiveKey(KeyExpiresAt)
  /\ InitNoRL
  /\ InitCache

NextExpiry ==
  \/ Validation(Writer)
  \/ Return(Writer)
  \/ KvDown
  \/ KvRecover
  \/ TickSec

SpecExpiry == InitExpiry /\ [][NextExpiry]_vars

----------------------------------------------------------------------------
(* Specification of racing writes: two callers in one process set the same *)
(* key, one to a small value and one to a large one, with or without tags, *)
(* through outages                                                         *)

NextRace ==
  \/ Sets(Writer, {"k1"}, {"small"}, Ttls, {FALSE}, {<<>>, <<"t1">>})
  \/ Sets(Reader, {"k1"}, {"big"}, Ttls, {FALSE}, {<<>>, <<"t1">>})
  \/ \E t \in TaskIds : TagRegistration(t)
  \/ \E t \in TaskIds : Return(t)
  \/ KvDown
  \/ KvRecover
  \/ TickSec

SpecRace == Init /\ [][NextRace]_vars

----------------------------------------------------------------------------
(* Specification of pending calls: one caller of get and set and one       *)
(* limiter over a connection that is open, closed, or open and silent.     *)
(* The helpers of redis.js await the command with no timeout of their own, *)
(* so a step that takes the answer of Redis is a step of Redis: it is sure *)
(* to come only when the connection is closed (isOpen false, the helper    *)
(* returns at once) and the model states fairness for that case alone.     *)

\* the optimized limiter with a window of one second
InitHang ==
  /\ InitRL
  /\ limiter = "opt"
  /\ windowMs = MsPerSec

NextHang ==
  \/ Gets(Writer, {"k1"}, {FALSE})
  \/ Sets(Writer, {"k1"}, {"small"}, {1}, {FALSE}, {<<"t1">>})
  \/ TagRegistration(Writer)
  \/ Return(Writer)
  \/ OptimizedRateLimiterCheck
  \/ CacheIncrExpire
  \/ KvDown
  \/ KvRecover
  \/ TickSec

\* the steps the process takes without an answer of Redis
FairHang ==
  /\ WF_vars(Return(Writer))
  /\ WF_vars(~kvUp /\ GetRedis(Writer))
  /\ WF_vars(~kvUp /\ TagRegistration(Writer))
  /\ WF_vars(~kvUp /\ CacheIncrExpire)

SpecHang == InitHang /\ [][NextHang]_vars /\ FairHang

----------------------------------------------------------------------------
(* Specification of the memoizing wrapper: one caller of one wrapped       *)
(* function whose fn may raise, cacheStats observed, outages               *)

NextWrap ==
  \/ (getCalls < MaxGets /\ cacheStats.sets < MaxStat
        /\ \E compress \in BOOLEAN : CacheWrapper(Writer, "k1", compress))
  \/ GetRedis(Writer)
  \/ GetGunzip(Writer)
  \/ \E result \in LoaderResults, tags \in {<<>>, <<"t1">>} :
        WrapLoad(Writer, result, MemoryTtlSecs + 1, tags)
  \/ TagRegistration(Writer)
  \/ Return(Writer)
  \/ ResetCacheStatistics
  \/ CorruptEntry("k1")
  \/ KvDown
  \/ KvRecover
  \/ TickSec

SpecWrap == InitStats /\ [][NextWrap]_vars

----------------------------------------------------------------------------
(* Specification of the statistics: one caller, one key, cacheStats        *)
(* observed, stored envelopes that may get damaged, outages                *)

NextStats ==
  \/ (getCalls < MaxGets /\ Gets(Writer, {"k1"}, BOOLEAN))
  \/ GetGunzip(Writer)
  \/ (cacheStats.sets < MaxStat
        /\ Sets(Writer, {"k1"}, {"null", "small"}, {MemoryTtlSecs + 1}, BOOLEAN, {<<>>}))
  \/ (cacheStats.memoryHits + cacheStats.redisHits < MaxStat
        /\ BatchGets(Writer, {<<"k1">>}))
  \/ Return(Writer)
  \/ ResetCacheStatistics
  \/ CorruptEntry("k1")
  \/ KvDown
  \/ KvRecover

SpecStats == InitStats /\ [][NextStats]_vars

----------------------------------------------------------------------------
(* Specification of tag registration: concurrent tagged sets in one        *)
(* process, the KV store available                                         *)

NextTag ==
  \E t \in TaskIds :
     \/ Sets(t, Keys, {"small"}, Ttls, {FALSE}, {<<"t1">>, <<"t1", "t2">>})
     \/ TagRegistration(t)
     \/ Return(t)

SpecTag == Init /\ [][NextTag]_vars

----------------------------------------------------------------------------
(* Specification of invalidation: concurrent gets, tagged sets and         *)
(* invalidateByTag in one process, the KV store available                  *)

NextInv ==
  \/ Sets(Writer, Keys, {"small"}, Ttls, {FALSE}, {<<"t1">>})
  \/ TagRegistration(Writer)
  \/ Invalidation(Writer, {"t1"})
  \/ Gets(Reader, Keys, {FALSE})
  \/ \E t \in TaskIds : Return(t)
  \/ TickSec

SpecInv == Init /\ [][NextInv]_vars

\* the limit and the TTL (in ms) of the limiter of this behaviour
Limit == IF limiter = "opt" THEN MaxRequests ELSE ApiKeyLimit
TtlMs == IF limiter = "opt" THEN OptTtlSecs * MsPerSec ELSE ApiKeyWindowSecs * MsPerSec
Checked == rl.pc = "idle" /\ rlLast.who # "none"

----------------------------------------------------------------------------
(* C3 *)

----------------------------------------------------------------------------
(* C4 *)

\* C4: with no process lost, a check during which the KV store failed
\* allows the request, and a request is denied only inside the window of its
\* counter, that is less than the TTL after the counter was created: no
\* earlier outage or failed call makes a counter outlive its window and deny
\* requests of later windows.
C4_FailOpen ==
  (Checked /\ ~crashSeen) =>
     /\ rlLast.failed => rlLast.allowed
     /\ ~rlLast.allowed => rlLast.at < ctrBorn + TtlMs

----------------------------------------------------------------------------
(* C6 *)

\* C6: outside a running cacheIncr, every rate-limit counter that exists
\* in the KV store has a TTL.
C6_CounterHasTtl ==
  rl.pc = "idle" =>
     \A k \in CtrKeys : counters[k].count > 0 => counters[k].exp # NoTTL

----------------------------------------------------------------------------
(* The calls that have just returned *)

GotBy(t) == tasks[t].pc = "done" /\ tasks[t].op = "get"

\* k holds what a set that returned true wrote, and no write, no delete and
\* no expiry touched k since
LiveWrite(k) == written[k].state = "done" /\ ~written[k].deleted

----------------------------------------------------------------------------
(* C1 *)

\* C1: a get(k) with default options that follows a set(k, v, ttl) with
\* default options that returned true, with the KV store answering, before
\* ttl elapses and with no other write to k in between, returns v.
C1_SetThenGet ==
  \A t \in TaskIds :
     (/\ GotBy(t)
      /\ ~tasks[t].skipMemory /\ ~tasks[t].decompress /\ ~tasks[t].kvFailed
      /\ LiveWrite(tasks[t].key) /\ written[tasks[t].key].defaults)
     => tasks[t].retVal = written[tasks[t].key].value

----------------------------------------------------------------------------
(* C2 *)

\* C2: a get(k) called after invalidateByTag(t) has returned, for a key k
\* that a successful set wrote under tag t before the invalidation and that
\* was not written since, returns Absent (null).
C2_AbsentAfterInvalidate ==
  \A t \in TaskIds :
     (/\ GotBy(t)
      /\ tasks[t].afterInv
      /\ written[tasks[t].key].invalidated)
     => tasks[t].retVal = Null

----------------------------------------------------------------------------
(* C5 *)

----------------------------------------------------------------------------
(* C7 *)

\* C7: once a tagged set has returned true, its key is listed in the index
\* of every one of its tags, and stays listed whatever other tagged sets run
\* concurrently.
C7_Registered ==
  \A k \in Keys :
     LiveWrite(k) =>
        \A g \in written[k].tags :
           tagIndex[g].present /\ k \in Range(tagIndex[g].keys)

----------------------------------------------------------------------------
(* C8 *)

\* C8: the index of a tag expires no earlier than any live entry that a
\* completed set registered under the tag and that the index lists.
C8_IndexOutlivesMembers ==
  \A g \in Tags : \A k \in Keys :
     (/\ LiveWrite(k) /\ g \in written[k].tags
      /\ store[k].present
      /\ tagIndex[g].present /\ k \in Range(tagIndex[g].keys))
     => tagIndex[g].exp >= store[k].exp

----------------------------------------------------------------------------
(* C9 *)

\* C9: a get answered from the KV tier, for a key that holds what a
\* successful set(k, v) wrote, returns v itself, whatever the compress
\* option of the set and the decompress option of the get.
C9_RoundTrip ==
  \A t \in TaskIds :
     (GotBy(t) /\ tasks[t].tier = "redis" /\ LiveWrite(tasks[t].key))
     => tasks[t].retVal = written[tasks[t].key].value

----------------------------------------------------------------------------
(* C10 *)

\* C10: a get of a live key that was successfully set to null, false, 0 or
\* '' is a hit that returns that value, and its result differs from the
\* null a total miss returns.
C10_FalsyIsAHit ==
  \A t \in TaskIds :
     (/\ GotBy(t) /\ ~tasks[t].kvFailed
      /\ LiveWrite(tasks[t].key)
      /\ written[tasks[t].key].value.v \in Falsy)
     => /\ tasks[t].tier # "miss"
        /\ tasks[t].retVal = written[tasks[t].key].value
        /\ tasks[t].retVal # Null

----------------------------------------------------------------------------
(* C17 *)

\* C17: a check of the optimized limiter that got count c reports
\* remaining = limit - c when it allows, and when it denies it reports
\* resetAt = the instant the counter's TTL runs out (now + remaining TTL).
C17_RemainingAndReset ==
  (Checked /\ rlLast.who = "opt" /\ rlLast.headers /\ rlLast.at = now) =>
     /\ rlLast.allowed => rlLast.remaining = Limit - rlLast.count
     /\ (~rlLast.allowed /\ counters[OptKey].exp # NoTTL)
          => rlLast.resetAt = counters[OptKey].exp

----------------------------------------------------------------------------
(* C18 *)

\* the window W of the limiter of this behaviour, in ms
WindowLen == IF limiter = "opt" THEN windowMs ELSE ApiKeyWindowSecs * MsPerSec

RECURSIVE AllowedIn(_, _)
\* the requests let through that arrived in the interval [a, b]
AllowedIn(a, b) ==
  IF a > b \/ a > MaxTime THEN 0 ELSE allowedAt.n[a] + AllowedIn(a + 1, b)

----------------------------------------------------------------------------
(* C19 *)

\* C19: a step of the program or of the clock never lowers a rate-limit
\* counter except by the expiry of its TTL, never changes the TTL of a counter
\* that has one, and gives a TTL only through the EXPIRE of the increment
\* that created the counter.
C19_CounterStep ==
  [][\A k \in CtrKeys :
       /\ \/ counters'[k].count >= counters[k].count
          \/ /\ counters[k].exp # NoTTL
             /\ now' >= counters[k].exp
             /\ counters'[k] = NoCounter
       /\ (counters[k].exp # NoTTL /\ counters'[k].count > 0)
            => counters'[k].exp = counters[k].exp
       /\ (counters'[k].exp # counters[k].exp /\ counters'[k].count > 0)
            => (rl.pc = "expire" /\ rl.key = k /\ counters[k].exp = NoTTL)
  ]_vars

\* a denied request has incremented the counter of a running window
C19_Witness ==
  /\ Checked /\ ~rlLast.allowed
  /\ \E k \in CtrKeys :
        counters[k].count = rlLast.count /\ counters[k].exp > now

----------------------------------------------------------------------------
(* C11 *)

BatchBy(t) == tasks[t].pc = "done" /\ tasks[t].op = "batch"

\* C11: with the KV store answering, batchGet(keys) returns an array as
\* long as keys whose i-th element is the value L1 held live for keys[i] when
\* the call looked, else the value the KV store holds for keys[i], else null.
C11_BatchInOrder ==
  \A t \in TaskIds :
     (BatchBy(t) /\ ~tasks[t].kvFailed) =>
        /\ Len(tasks[t].ret) = Len(tasks[t].keys)
        /\ \A i \in 1..Len(tasks[t].keys) :
              tasks[t].ret[i] = tasks[t].expected[i]

----------------------------------------------------------------------------
(* C12 *)

\* C12: a batchGet whose mget found the KV store unavailable reports every
\* key that missed L1 absent, inserts no L1 slot and counts no
\* distributed-tier hit.
C12_BatchFailOpen ==
  \A t \in TaskIds :
     (BatchBy(t) /\ tasks[t].kvFailed) =>
        /\ \A i \in 1..Len(tasks[t].keys) :
              ~tasks[t].live[i] => tasks[t].ret[i] \in {Null, Undefined}
        /\ tasks[t].inserted = {}
        /\ tasks[t].redisHitsAdded = 0

----------------------------------------------------------------------------
(* C13 *)

\* C13: every L1 slot was written from the value its key had at the KV
\* store at that moment and was given a lifetime of at most
\* MEMORY_CACHE_TTL, and a get answered from L1 returns a slot that has not
\* expired.
C13_SlotFromStore ==
  /\ \A k \in Keys :
        memoryCache[k].present =>
           /\ memoryCache[k].fromKv
           /\ memoryCache[k].life <= MEMORY_CACHE_TTL
  /\ \A t \in TaskIds :
        (GotBy(t) /\ tasks[t].tier = "memory") =>
           memoryCache[tasks[t].key].expires > now

----------------------------------------------------------------------------
(* C14 *)

\* a step of t that ends at an L1 insert of the source: the write-through of
\* enhancedCacheSet, the populate of enhancedCacheGet and of batchCacheGet
InsertStep(t) ==
  \/ tasks[t].pc = "idle" /\ tasks'[t].op = "set" /\ tasks'[t].pc # "idle"
  \/ tasks[t].pc \in {"get:redis", "get:gunzip", "batch:mget"} /\ tasks'[t] # tasks[t]

\* C14: L1 never holds more than MEMORY_CACHE_SIZE entries, and a step that
\* reaches an insert while L1 is at capacity leaves L1 as it was.
C14_Capacity ==
  /\ [](MemSize(memoryCache) <= MEMORY_CACHE_SIZE)
  /\ [][\A t \in TaskIds :
          (InsertStep(t) /\ MemSize(memoryCache) >= MEMORY_CACHE_SIZE)
             => memoryCache' = memoryCache]_vars

\* a set that returned true for a key L1 has no slot for, L1 being full
C14_Witness ==
  \E t \in TaskIds :
     /\ tasks[t].pc = "done" /\ tasks[t].op = "set" /\ tasks[t].retOk
     /\ ~tasks[t].skipMemory
     /\ ~memoryCache[tasks[t].key].present
     /\ MemSize(memoryCache) = MEMORY_CACHE_SIZE

----------------------------------------------------------------------------
(* C15 *)

\* no call of enhancedCacheGet is between its first and its last step
NoGetInFlight == \A t \in TaskIds : tasks[t].pc \notin {"get:redis", "get:gunzip"}

\* C15: after n calls of get since the statistics were reset, whatever the
\* keys, the options, the state of the KV store and of the stored envelopes,
\* hits + misses = n and hitRate is hits / (hits + misses) as a percentage.
C15_HitsPlusMisses ==
  NoGetInFlight =>
     /\ cacheStats.hits + cacheStats.misses = getCalls
     /\ HitRate(cacheStats) =
          [kind |-> "percent",
           v |-> IF getCalls = 0 THEN 0 ELSE Pct(cacheStats.hits, getCalls)]

\* a get that ended by throwing on a damaged envelope, after a miss and
\* another hit were counted
C15_Witness ==
  /\ \E t \in TaskIds : GotBy(t) /\ tasks[t].threw
  /\ cacheStats.misses > 0
  /\ cacheStats.hits > 1
  /\ getCalls = MaxGets

----------------------------------------------------------------------------
(* C16 *)

\* C16: getStats reports hitRate 0% when hits + misses = 0 and
\* memoryHitRate 0% when hits = 0.
C16_NoDivisionByZero ==
  /\ cacheStats.hits + cacheStats.misses = 0
       => HitRate(cacheStats) = [kind |-> "percent", v |-> 0]
  /\ cacheStats.hits = 0
       => MemoryHitRate(cacheStats) = [kind |-> "percent", v |-> 0]

----------------------------------------------------------------------------
(* C20 *)

\* C20: a get that decodes what it read and found a damaged envelope at
\* the KV store returns Absent as a miss without throwing, and the entry is
\* gone from the store.
C20_CorruptIsMiss ==
  \A t \in TaskIds :
     (GotBy(t) /\ tasks[t].corrupt /\ tasks[t].decompress) =>
        /\ ~tasks[t].threw
        /\ tasks[t].tier = "miss" /\ tasks[t].retVal = Null
        /\ ~store[tasks[t].key].present

----------------------------------------------------------------------------
(* C21 *)

SetBy(t) == tasks[t].pc = "done" /\ tasks[t].op = "set"

\* C21: set never throws, whether the KV store failed or the value cannot
\* be encoded: the caller gets a boolean, and when it is false the call
\* wrote nothing to L1.
C21_SetNeverThrows ==
  \A t \in TaskIds :
     SetBy(t) =>
        /\ ~tasks[t].threw
        /\ ~tasks[t].retOk => tasks[t].inserted = {}

----------------------------------------------------------------------------
(* C22 *)

\* a call of the wrapped function has ended and its fn had raised
RaisedBy(t) == tasks[t].pc = "done" /\ tasks[t].op = "wrap" /\ tasks[t].raised

\* the call left the KV entries, the tag indexes and the sets counter as it
\* found them
KvUntouched(t) ==
  /\ store = tasks[t].before.store
  /\ tagIndex = tasks[t].before.tagIndex
  /\ cacheStats.sets = tasks[t].before.sets

\* a lookup of the key made now goes on to fn
WouldLoad(k, kvFailed) ==
  IF Live(k) THEN memoryCache[k].value = Null
  ELSE kvFailed \/ ~Truthy(cacheGetNoGuard(k))

----------------------------------------------------------------------------
(* C23 *)

\* C23: every get, set and rate-limit check eventually returns, even when
\* Redis never answers the command the call is waiting for.
C23_EventuallyReturns ==
  /\ \A t \in TaskIds :
        (tasks[t].pc \notin {"idle", "done"}) ~> (tasks[t].pc \in {"idle", "done"})
  /\ (rl.pc # "idle") ~> (rl.pc = "idle")

----------------------------------------------------------------------------
(* C24 *)

\* two sets of key k have both returned true
BothSet(t1, t2, k) ==
  /\ t1 # t2
  /\ SetBy(t1) /\ tasks[t1].key = k /\ tasks[t1].retOk
  /\ SetBy(t2) /\ tasks[t2].key = k /\ tasks[t2].retOk

\* C24: once two concurrent sets of the same key have both returned true,
\* the KV store holds for the key the value of the write that landed last,
\* with the lifetime that write gave it.
C24_LastWriteWins ==
  \A t1 \in TaskIds, t2 \in TaskIds, k \in Keys :
     BothSet(t1, t2, k) =>
        /\ written[k].by \in {t1, t2}
        /\ store[k].present
        /\ Plain(store[k].val.v) = written[k].value
        /\ store[k].exp > now

\* both sets returned true and the small value landed after the large one
C24_Witness ==
  /\ BothSet(Writer, Reader, "k1")
  /\ written["k1"].by = Writer
  /\ store["k1"].val.v = "small"

----------------------------------------------------------------------------
(* C25, C26 *)

ValidatedBy(t) == tasks[t].pc = "done" /\ tasks[t].op = "validate"

\* C25: once revoke has returned, every later validateAndGet of the key
\* returns null.
C25_RevokedIsRejected ==
  \A t \in TaskIds :
     (ValidatedBy(t) /\ tasks[t].ctx.afterRevoke) => tasks[t].retVal = Null

\* C26: validateAndGet never returns the record of a key whose expires_at
\* is earlier than the time of the call.
C26_ExpiredIsRejected ==
  \A t \in TaskIds :
     (ValidatedBy(t) /\ tasks[t].retVal # Null) => ~IsExpired(db, tasks[t].ctx.at)

----------------------------------------------------------------------------
(* C27 *)

\* a request with no API key or with one no row has was answered
Unauthenticated ==
  collect.pc = "done" /\ collect.key \in {"missing", "unknown"}

\* the request made no event, invalidated no tag and incremented neither the
\* counter of the key nor the counter of eventCollectionLimiter
NoLaterStage ==
  collect.did \cap {"incr:key", "incr:events", "create", "invalidate",
                    "verify", "permission", "limiter"} = {}

----------------------------------------------------------------------------
(* C28 *)

\* the requests of userId that passed in the windowMs before the instant at
PassedBefore(userId, at) ==
  Len(Recent(perUser.passed[userId], at, PerUserWindow))

\* C28: at most max requests of one user pass in any interval of windowMs
\* (max + 1 passes span windowMs or more); a rejected request is not
\* recorded, and a request passes exactly when fewer than max passed
\* requests lie in the windowMs before it (the history holds the request
\* itself once it passed, hence the <= of the last conjunct).
C28_SlidingWindow ==
  /\ \A u \in UserIds : \A i, j \in DOMAIN perUser.passed[u] :
        j - i >= PerUserMax => perUser.passed[u][j] - perUser.passed[u][i] >= PerUserWindow
  /\ perUser.last.user # "none" =>
        /\ ~perUser.last.pass => ~perUser.last.recorded
        /\ ~perUser.last.pass => PassedBefore(perUser.last.user, perUser.last.at) >= PerUserMax
        /\ perUser.last.pass =>
              PassedBefore(perUser.last.user, perUser.last.at) <= PerUserMax
              /\ perUser.passed[perUser.last.user]
                    [Len(perUser.passed[perUser.last.user])] = perUser.last.at

\* max requests of a user passed, the first at instant 0, and a further one
\* passes at instant windowMs, when the first has left the window
C28_Witness ==
  /\ perUser.last.pass
  /\ Len(perUser.passed[perUser.last.user]) = PerUserMax + 1
  /\ perUser.last.at = PerUserWindow
  /\ perUser.passed[perUser.last.user][1] = 0

----------------------------------------------------------------------------
(* C29 *)

\* C29: every response to a request that passed through the optimized rate
\* limiter, allowed or denied, the KV store available or not, carries the
\* X-RateLimit headers, and X-RateLimit-Remaining is max(0, limit - count),
\* never negative.
C29_HeadersAlways ==
  rlLast.who = "opt" =>
     /\ rlLast.headers
     /\ rlLast.remaining = Max(0, MaxRequests - rlLast.count)
     /\ rlLast.remaining >= 0

----------------------------------------------------------------------------
(* C30 *)

\* the warm of task t has returned
WarmedBy(t) == tasks[t].pc = "done" /\ tasks[t].op = "warm"

\* every pair of the warm is at the KV store with its value and lifetime ttl,
\* and dataLoader was called once per key, in the order of keys
WarmStored(t) ==
  /\ \A i \in 1..Len(tasks[t].warm.pairs) :
        LET k == tasks[t].warm.pairs[i][1]
        IN /\ store[k].present
           /\ store[k].val = Plain(LastOf(tasks[t].warm.pairs, k, Len(tasks[t].warm.pairs)))
           /\ store[k].exp = now + tasks[t].warm.ttl * MsPerSec
  /\ tasks[t].warm.loads = tasks[t].keys

\* C30: after warm(loader, keys, ttl) completes with the KV store available,
\* every key for which loader returned a non-null value is at the KV store
\* with that value and lifetime ttl, loader was invoked exactly once per key
\* in order, and a later get of such a key returns the loaded value.
C30_WarmThenGet ==
  \A t \in TaskIds :
     /\ (WarmedBy(t) /\ ~tasks[t].kvFailed) => WarmStored(t)
     /\ (/\ GotBy(t) /\ ~tasks[t].kvFailed
         /\ written[tasks[t].key].warmed /\ LiveWrite(tasks[t].key))
        => tasks[t].retVal = written[tasks[t].key].value

----------------------------------------------------------------------------
(* C31 *)

\* C31: resetStats sets hits, misses, memoryHits, redisHits, sets and
\* deletes to 0 and changes nothing else: L1, the KV store and the tag
\* indexes are as they were.
C31_ResetOnlyZeroes ==
  [][ResetCacheStatistics =>
        /\ \A n \in {"hits", "misses", "memoryHits", "redisHits", "sets", "deletes"} :
              cacheStats'[n] = 0
        /\ memoryCache' = memoryCache
        /\ store' = store
        /\ tagIndex' = tagIndex]_vars

\* the counters are zero although a set has landed and L1 and the KV store
\* hold its key: a reset has run over a cache that is not empty
C31_Witness ==
  /\ cacheStats = NoStats
  /\ store["k1"].present
  /\ memoryCache["k1"].present

----------------------------------------------------------------------------
(* C32 *)

\* C32: in every reachable state, after any sequence of get, batchGet and
\* set calls, hits = memoryHits + redisHits: every hit is counted once in
\* hits and once under the tier that served it.
C32_HitsSplitByTier ==
  cacheStats.hits = cacheStats.memoryHits + cacheStats.redisHits

----------------------------------------------------------------------------
(* C33 *)

\* the step of task t is the one by which its invalidateCacheByTag deletes
\* the entry of its tag
DeletesTag(t) ==
  /\ tasks[t].pc = "inv:deltag"
  /\ tasks'[t].pc # "inv:deltag"
  /\ tagIndex[tasks[t].tag].present
  /\ ~tagIndex'[tasks[t].tag].present

\* C33: invalidateByTag reads the key list of the tag, removes the listed
\* keys from L1 and from the KV store, and only then deletes the tag entry:
\* when the tag entry goes, every listed key has been deleted, and until
\* that last step the tag entry stays in place for a retry.
C33_KeysBeforeTag ==
  [][\A t \in TaskIds :
        /\ DeletesTag(t) => Range(tasks[t].existingKeys) \subseteq tasks[t].dels
        /\ (tasks[t].pc = "inv:del" /\ tasks'[t] # tasks[t]) => tagIndex' = tagIndex]_vars

----------------------------------------------------------------------------
(* C34 *)

\* the step leaves the calls and the stores alone and takes slots out of L1
Sweeps ==
  /\ tasks' = tasks /\ now' = now
  /\ memoryCache' # memoryCache

\* C34: the sweep removes exactly the L1 entries whose expiry has passed and
\* no other; and since every slot expires within MEMORY_CACHE_TTL and the
\* sweep keeps running, an L1 that is full has free capacity again.
C34_SweepFreesL1 ==
  /\ [][Sweeps =>
          \A k \in Keys :
             memoryCache'[k] =
               IF memoryCache[k].present /\ memoryCache[k].expires <= now
               THEN NoSlot ELSE memoryCache[k]]_vars
  /\ (MemSize(memoryCache) >= MEMORY_CACHE_SIZE)
        ~> (MemSize(memoryCache) < MEMORY_CACHE_SIZE)

\* L1 is empty although a set has landed and its key is still at the KV
\* store: the slot of the set expired and the sweep took it
C34_Witness ==
  /\ MemSize(memoryCache) = 0
  /\ \E k \in Keys : store[k].present /\ written[k].state = "done"
  /\ Quiet

----------------------------------------------------------------------------
(* C35 *)

\* a call of the wrapped function has returned what its lookup found
WrapHit(t) ==
  /\ tasks[t].pc = "done" /\ tasks[t].op = "wrap"
  /\ tasks[t].tier \in {"memory", "redis"}
  /\ tasks[t].retVal # Null

\* C35: a wrapped call goes on to fn only when its lookup returned no value,
\* and on a hit it returns, without calling fn, the value fn returned on the
\* call that populated the entry.
C35_HitReturnsLoaded ==
  \A t \in TaskIds :
     /\ tasks[t].pc = "wrap:load" => tasks[t].retVal = Null
     /\ (WrapHit(t) /\ LiveWrite(tasks[t].key))
        => tasks[t].retVal = written[tasks[t].key].value

----------------------------------------------------------------------------
(* C36 *)

\* C36: the index of a tag lists each key at most once, whatever tagged
\* sets ran, repeated sets of one key under one tag included.
C36_IndexIsASet ==
  \A g \in Tags :
     \A i, j \in DOMAIN tagIndex[g].keys :
        tagIndex[g].keys[i] = tagIndex[g].keys[j] => i = j

----------------------------------------------------------------------------
(* C37 *)

\* C37: once set(k, v) has returned true, and until the next write or
\* invalidation of k, L1 holds for k nothing or v: no older value of k is
\* visible through L1.
C37_NoStaleL1 ==
  \A k \in Keys :
     (LiveWrite(k) /\ Live(k)) => memoryCache[k].value = written[k].value

----------------------------------------------------------------------------
(* C38 *)

\* C38: for a key that is live in L1 and at the KV store after a successful
\* set(k, v), a get served by L1 and a get with skipMemory, called with the
\* same decompress option, return the same value.
C38_SameFromBothTiers ==
  \A t, u \in TaskIds :
     (/\ GotBy(t) /\ GotBy(u)
      /\ tasks[t].key = tasks[u].key
      /\ ~tasks[t].skipMemory /\ tasks[t].tier = "memory"
      /\ tasks[u].skipMemory
      /\ tasks[t].decompress = tasks[u].decompress
      /\ LiveWrite(tasks[t].key) /\ store[tasks[t].key].present)
     => tasks[t].retVal = tasks[u].retVal

====
